---- MODULE Spec2Model ----
(***************************************************************************)
(* A model of cargo-workspaces' release engine: the publish pipeline       *)
(* (publish.rs), the git release state machine (utils/git.rs) and the      *)
(* grouping classifier (utils/pkg.rs).                                     *)
(*                                                                         *)
(* The specifications share the variables below:                           *)
(*   Spec       Publish::run, run up to MaxRuns times against a registry   *)
(*              whose index lags behind the uploads;                       *)
(*   SpecGit    the tag / push steps of GitOpt over a local tag list;      *)
(*   SpecGroup  get_group_packages over bounded workspaces;                *)
(*   SpecValidate  one call of GitOpt::validate over options, workspace    *)
(*              configurations and repositories;                           *)
(*   SpecFair   Spec with the fairness of a sequential program;            *)
(*   SpecOneEdge  Spec over workspaces with at most one dependency edge;   *)
(*   SpecTagMsg the tag messages global_tag builds from --tag-msg;         *)
(*   SpecRegistry  the registries the publish loop reads and uploads to;   *)
(*   SpecScope  Spec in a workspace that declares exclusion patterns;      *)
(*   SpecCall   one call of one operation of GitOpt and its git commands;  *)
(*   SpecExec   Exec::run over the packages of the workspace.              *)
(***************************************************************************)
EXTENDS Integers, Sequences, FiniteSets, TLC

VARIABLES
    \* ---- inputs of Publish::run (fixed by Init) ----
    deps,          \* deps[p]: the packages p's manifest names as dependencies
    publish,       \* publish[p]: the manifest's `publish` field: "none", "empty", "named"
    from_git,      \* Publish.from_git
    versioned,     \* what do_versioning returns: "err", "none" or "some"
    new_versions,  \* the packages of do_versioning's version plan
    git,           \* the GitOpt record (self.version.git)
    \* ---- the registry ----
    uploaded,      \* versions the registry has accepted
    indexed,       \* versions the registry index shows
    \* ---- one run of Publish::run ----
    run,           \* number of runs started so far
    pc,            \* position in Publish::run
    visited,       \* dag's order, private packages filtered out (line 74)
    unfiltered,    \* dag's order as returned (line 71)
    idx,           \* position of the loop of line 86 in visited
    polls,         \* attempts check_index has made for the current package
    cargoOut,      \* stderr of the last publish command of the run: which markers it holds
    result,        \* what the run returned: "none" while running
    branch,        \* what validate returned (line 142)
    log,           \* what this run did, in order
    pushCmds,      \* the `git push` command lines this run invoked
    firstOrder,    \* the packages the loop of the first run reached, in order
    republished,   \* packages whose publish command ran after their upload had succeeded
    \* ---- the git release state machine ----
    localTags,     \* the tags of the local repository
    grun,          \* number of releases started so far
    gpc,           \* position in the release: validate, commit, tags, push
    gi,            \* position of the individual tag step in the plan
    gtags,         \* the tags the tag steps of this release returned
    gcreated,      \* the tags this release created
    gresult,       \* what the release returned: "none" while running
    glog,          \* the git commands this release invoked that change the repository
    tagLog,        \* every call of GitOpt::tag so far
    \* ---- get_group_packages ----
    groups,        \* workspace_config.groups: a sequence of [name, members]
    exclude,       \* workspace_config.exclude: None or its member patterns
    all,           \* the `all` argument: private packages are kept
    inherits,      \* the packages whose manifest has `version.workspace = true`
    found,         \* the workspace members metadata.packages has an entry for
    cpc,           \* position in get_group_packages
    wi,            \* position of the loop of line 246 in workspace_members
    named_groups,  \* group name -> the (package, matched pattern) pairs pushed so far
    non_empty,     \* the flag of line 217
    cresult,       \* what get_group_packages returned: kind "none" while running
    \* ---- one call of GitOpt::validate ----
    cfg_allow,     \* config.allow_branch of the workspace configuration
    env,           \* what the git commands of validate print in the repository
    vpc,           \* "idle" before the call, "done" after it
    vresult,       \* what validate returned
    \* ---- the tag message of global_tag ----
    tag_msg,       \* GitOpt.tag_msg: the values of --tag-msg, each a string
    tplan,         \* new_versions as global_tag reads it: name, version, private, by name
    tpc,           \* "idle" before the messages are built, "done" after
    tmsgs,         \* the messages built for the global tag, or the templating error
    \* ---- the registries of the publish loop ----
    registry,      \* Publish.registry: the value of --registry, or None
    regs,          \* for each package the loop reached: the registry of the index it
                   \* consults and the registry the publish command uploads to
    \* ---- one call of one operation of GitOpt ----
    callOp,        \* "idle" before the call, then the operation that was called
    callArgs,      \* the arguments of the call that are not options
    callCmds,      \* the git commands the call invoked, in order
    callRet,       \* what the call returned
    \* ---- Exec::run ----
    no_bail,       \* Exec.no_bail
    epc,           \* position in Exec::run
    ei,            \* position of the loop of line 28 in the order
    elog,          \* the packages the command was run in, each with what it gave
    eresult        \* what the run returned: "none" while running

inputVars == <<deps, publish, from_git, versioned, new_versions, git>>

runVars == <<uploaded, indexed, run, pc, visited, unfiltered, idx, polls, cargoOut, result,
             log, firstOrder, republished>>

gitVars == <<localTags, grun, gpc, gi, gtags, gcreated, gresult, glog, tagLog>>

grpInputs == <<groups, exclude, all, inherits, found>>

grpVars == <<grpInputs, cpc, wi, named_groups, non_empty, cresult>>

valVars == <<cfg_allow, env, vpc, vresult>>

tmplVars == <<tag_msg, tplan, tpc, tmsgs>>

regVars == <<registry, regs>>

callVars == <<callOp, callArgs, callCmds, callRet>>

execVars == <<no_bail, epc, ei, elog, eresult>>

nonPublishVars == <<gitVars, grpVars, valVars, tmplVars, regVars, callVars, execVars>>

vars == <<inputVars, runVars, branch, pushCmds, gitVars, grpVars, valVars, tmplVars, regVars,
          callVars, execVars>>

----------------------------------------------------------------------------
(* Bounds *)

MaxDeps == 2      \* dependency edges declared in the workspace
MaxRuns == 2      \* runs of the publish pipeline
MaxPolls == 2     \* attempts of the registry poll before PublishTimeout

\* metadata.packages, in the order cargo metadata lists them
MetaPackages == <<"a", "b", "c">>
Pkgs == {MetaPackages[i] : i \in 1..Len(MetaPackages)}

None == "None"

----------------------------------------------------------------------------
(* Sequences *)

Range(s) == {s[i] : i \in 1..Len(s)}

IndexOf(s, x) == IF x \in Range(s) THEN CHOOSE i \in 1..Len(s) : s[i] = x ELSE 0

----------------------------------------------------------------------------
(* GitOpt: the options of utils/git.rs, lines 38-119 *)

GitOptDefault ==
    [no_git |-> FALSE, no_git_commit |-> FALSE, no_git_tag |-> FALSE,
     no_individual_tags |-> FALSE, no_global_tag |-> FALSE, tag_private |-> FALSE,
     no_git_push |-> FALSE, allow_branch |-> None]

\* The option profiles the publish pipeline is run with.
PublishGitOpts ==
    {GitOptDefault,
     [GitOptDefault EXCEPT !.no_git_push = TRUE]}

git_remote == "origin"           \* clap default_value of --git-remote
tag_prefix == "v"                \* clap default_value of --tag-prefix
new_version == "1.0.0"           \* the version of the plan

----------------------------------------------------------------------------
(* Strings that are matched against globs are sequences of tokens. *)

Chars(b) ==
    CASE b = "feature/x" -> <<"feature", "/", "x">>
      [] b = "feature/*" -> <<"feature", "/", "*">>
      [] b = "crates/internal" -> <<"crates", "/", "internal">>
      [] b = "crates/api" -> <<"crates", "/", "api">>
      [] b = "tools/cli" -> <<"tools", "/", "cli">>
      [] b = "crates/*" -> <<"crates", "/", "*">>
      [] b = "docs/*" -> <<"docs", "/", "*">>
      [] OTHER -> <<b>>

\* globset's matcher with default options: `*` matches any run of characters,
\* separators included; every other token matches itself.
RECURSIVE is_match(_, _)
is_match(pat, s) ==
    IF pat = <<>> THEN s = <<>>
    ELSE IF Head(pat) = "*"
         THEN \E k \in 0..Len(s) : is_match(Tail(pat), SubSeq(s, k + 1, Len(s)))
         ELSE s # <<>> /\ Head(s) = Head(pat) /\ is_match(Tail(pat), Tail(s))

----------------------------------------------------------------------------
(* GitOpt::validate, utils/git.rs lines 122-219 *)

\* What the git commands of validate print in a repository:
\*   notGit      stderr of rev-list contains "not a git repository"
\*   revCount    stdout of `rev-list --count --all --max-count=1`
\*   remoteRefs  the branches refs/remotes/<remote> has a ref for
\*   head        stdout of `rev-parse --abbrev-ref HEAD`
\*   left        stdout of `rev-list --left-only --count remote/branch...branch`
\*               when remote/branch exists: the commits of the upstream branch
\*               that the local branch does not have
\*   right       (ValidateEnvs) the commits of the local branch that the upstream
\*               branch does not have; no command of validate reads it
\*   updateOk    (ValidateEnvs) `remote update <remote>` of line 197 exited with
\*               status zero; validate drops the exit status of every command
\*               it runs (the `_` of lines 131, 148, 163 and 201, line 197)
GitEnvs ==
    [notGit : BOOLEAN, revCount : {"0", "1"}, remoteRefs : SUBSET {"main", "feature/x"},
     head : {"HEAD", "main", "feature/x"}, left : {"0", "1"}]

Ok(v) == [err |-> None, val |-> v]
Err(e) == [err |-> e, val |-> None]

\* The commits of the other side are counted (`--right-only`).
RightOnlyCount(e) == IF e.head \in e.remoteRefs THEN e.right ELSE ""

\* lines 199-211: `rev-list --left-only --count remote/branch...branch` counts the
\* commits of remote/branch that branch does not have; it prints nothing on
\* stdout when remote/branch is not a known revision.
LeftOnlyCount(e) == IF e.head \in e.remoteRefs THEN e.left ELSE ""

\* lines 172-179: command line value, else workspace config value, else "master"
EffectiveAllowBranch(o, config_allow) ==
    IF o.allow_branch # None THEN o.allow_branch
    ELSE IF config_allow # None THEN config_allow
    ELSE "master"

\* The branch is tested under its own name.
TestBranchNoAlias(b, allow) == b

\* lines 181-186
TestBranch(b, allow) == IF b = "main" /\ allow = "master" THEN "master" ELSE b

\* The commit option is left out of the test.
NoPushRequiredIgnoringCommit(o) ==
    o.no_git_push \/ o.no_git_tag \/ (o.no_global_tag /\ o.no_individual_tags)

\* lines 141-146
NoPushRequired(o) ==
    o.no_git_push
    \/ (o.no_git_commit /\ (o.no_git_tag \/ (o.no_global_tag /\ o.no_individual_tags)))

validate(o, config_allow, e) ==
    IF o.no_git THEN Ok(None)
    ELSE IF e.notGit THEN Err("NotGit")
    ELSE IF e.revCount = "0" THEN Err("NoCommits")
    ELSE IF NoPushRequired(o) THEN Ok(None)
    ELSE IF e.remoteRefs = {} THEN Err("NoRemote")
    ELSE IF e.head = "HEAD"
         THEN IF o.no_git_commit THEN Ok(None) ELSE Err("NotBranch")
    ELSE LET allow == EffectiveAllowBranch(o, config_allow)
         IN IF ~is_match(Chars(allow), Chars(TestBranch(e.head, allow)))
            THEN Err("BranchNotAllowed")
            ELSE IF LeftOnlyCount(e) # "0" THEN Err("BehindRemote")
            ELSE Ok(e.head)

----------------------------------------------------------------------------
(* GitOpt::push, utils/git.rs lines 349-383 *)

\* A command line argument is a string, here its sequence of tokens.
Arg(x) == <<x>>

\* The branch is left out of the command line.
PushRestWithoutBranch(b, tags) == IF tags # <<>> THEN <<Arg("tag")>> \o tags ELSE <<>>

\* lines 359-366: what follows the remote on the command line
PushRest(b, tags) ==
    (IF b # None THEN <<Arg(b)>> ELSE <<>>)
    \o (IF tags # <<>> THEN <<Arg("tag")>> \o tags ELSE <<>>)

\* lines 355-357 and 367-369: the cases in which push runs no git command
PushIsNoop(o, b, tags) == o.no_git \/ o.no_git_push \/ PushRest(b, tags) = <<>>

\* lines 373-374: the one git invocation of push
PushCommand(b, tags) ==
    <<Arg("push"), Arg("--no-follow-tags"), Arg(git_remote)>> \o PushRest(b, tags)

\* lines 378-380
PushResult(exit_ok) == IF exit_ok THEN "Ok" ELSE "NotPushed"

----------------------------------------------------------------------------
(* The names and the return values of the tag steps, utils/git.rs lines 274-347 *)

GlobalTagName == <<tag_prefix, new_version>>                 \* line 284
IndividualTagName(p) == <<p, "@", new_version>>              \* lines 335-339

\* line 280: global_tag returns Ok(None) without tagging
GlobalTagSkipped(o) == o.no_git \/ o.no_git_tag \/ o.no_global_tag

\* A private package is tagged like any other.
IndividualTagSkippedIgnoringPrivate(o, config_no_individual_tags, is_private) ==
    \/ o.no_git
    \/ o.no_git_tag
    \/ o.no_individual_tags
    \/ config_no_individual_tags

\* lines 326-333: individual_tag returns Ok(None) without tagging
IndividualTagSkipped(o, config_no_individual_tags, is_private) ==
    \/ o.no_git
    \/ o.no_git_tag
    \/ o.no_individual_tags
    \/ config_no_individual_tags
    \/ (is_private /\ ~o.tag_private)

----------------------------------------------------------------------------
(* The tag message of global_tag, utils/git.rs lines 284-311. A string is the   *)
(* sequence of its characters; a package name or a version that holds none of *)
(* the characters of the template language is one element.                    *)

\* str::starts_with
StartsWith(s, pat) == Len(s) >= Len(pat) /\ SubSeq(s, 1, Len(pat)) = pat

\* str::replace: the occurrences of pat, found from left to right without
\* overlap, are replaced by `by`
RECURSIVE Replace(_, _, _)
Replace(s, pat, by) ==
    IF s = <<>> THEN <<>>
    ELSE IF StartsWith(s, pat) THEN by \o Replace(SubSeq(s, Len(pat) + 1, Len(s)), pat, by)
    ELSE <<Head(s)>> \o Replace(Tail(s), pat, by)

\* str::split: the pieces between the occurrences of pat; n occurrences give
\* n + 1 pieces. `piece` is the piece being read.
RECURSIVE SplitFrom(_, _, _)
SplitFrom(s, pat, piece) ==
    IF s = <<>> THEN <<piece>>
    ELSE IF StartsWith(s, pat)
         THEN <<piece>> \o SplitFrom(SubSeq(s, Len(pat) + 1, Len(s)), pat, <<>>)
    ELSE SplitFrom(Tail(s), pat, Append(piece, Head(s)))

Split(s, pat) == SplitFrom(s, pat, <<>>)

\* A piece without the delimiter is taken whole (`unwrap_or` for `ok_or_else`).
SplitOnceOrWhole(s, c) ==
    IF c \notin Range(s) THEN [some |-> TRUE, before |-> s, after |-> <<>>]
    ELSE LET k == CHOOSE i \in 1..Len(s) : s[i] = c /\ \A j \in 1..(i - 1) : s[j] # c
         IN [some |-> TRUE, before |-> SubSeq(s, 1, k - 1), after |-> SubSeq(s, k + 1, Len(s))]

\* str::split_once for a one character delimiter: None without the delimiter,
\* else what is before and after its first occurrence
SplitOnce(s, c) ==
    IF c \notin Range(s) THEN [some |-> FALSE, before |-> <<>>, after |-> <<>>]
    ELSE LET k == CHOOSE i \in 1..Len(s) : s[i] = c /\ \A j \in 1..(i - 1) : s[j] # c
         IN [some |-> TRUE, before |-> SubSeq(s, 1, k - 1), after |-> SubSeq(s, k + 1, Len(s))]

\* line 297: the packages a scope is repeated for
TaggedInMsg(pkg, tag_private) == ~pkg.private \/ tag_private

\* lines 296-304: the template of a scope, once for each package of the plan in
\* the order of the map (by name)
RECURSIVE ScopeBody(_, _, _)
ScopeBody(template, plan, tag_private) ==
    IF plan = <<>> THEN <<>>
    ELSE (IF TaggedInMsg(Head(plan), tag_private)
          THEN Replace(Replace(template, <<"%", "n">>, Head(plan).name),
                       <<"%", "v">>, Head(plan).version)
          ELSE <<>>)
         \o ScopeBody(template, Tail(plan), tag_private)

\* lines 288-306: the pieces after the first, each a scope and what follows it.
\* The walk stops at the first piece without `}`.
RECURSIVE Scopes(_, _, _, _)
Scopes(pieces, plan, tag_private, s) ==
    IF pieces = <<>> THEN [ok |-> TRUE, val |-> s]
    ELSE LET parts == SplitOnce(Head(pieces), "}")
         IN IF ~parts.some THEN [ok |-> FALSE, val |-> <<>>]
            ELSE Scopes(Tail(pieces), plan, tag_private,
                        s \o ScopeBody(parts.before, plan, tag_private) \o parts.after)

\* lines 287-307: one message of --tag-msg
TagMsg(msg, plan, tag_private, unified) ==
    LET pieces == Split(msg, <<"%", "{">>)
        r == Scopes(Tail(pieces), plan, tag_private, Head(pieces))
    IN IF r.ok THEN [ok |-> TRUE, val |-> Replace(r.val, <<"%", "v">>, unified)]
       ELSE r

\* lines 284-311: the messages handed to GitOpt::tag, or the error of the first
\* message with an unterminated scope
RECURSIVE TagMsgsFrom(_, _, _, _, _)
TagMsgsFrom(msgs, plan, tag_private, unified, done) ==
    IF msgs = <<>> THEN [ok |-> TRUE, val |-> done]
    ELSE LET r == TagMsg(Head(msgs), plan, tag_private, unified)
         IN IF ~r.ok THEN [ok |-> FALSE, val |-> <<>>]
            ELSE TagMsgsFrom(Tail(msgs), plan, tag_private, unified, Append(done, r.val))

TagMsgs(msgs, plan, tag_private, unified, tag) ==
    LET r == TagMsgsFrom(msgs, plan, tag_private, unified, <<>>)
    IN IF r.ok /\ r.val = <<>> THEN [ok |-> TRUE, val |-> <<tag>>] ELSE r

----------------------------------------------------------------------------
(* The dependency order: dag, called at publish.rs line 71 and exec.rs line 26. *)
(* A depth-first walk that appends a package after the dependencies it has    *)
(* among the input packages; a dependency cycle is a fatal error.             *)

\* the dependencies of p among the input packages, in metadata order
DepsIn(pkgs, p) == SelectSeq(pkgs, LAMBDA q : q \in deps[p])

RECURSIVE dag_insert(_, _, _, _)
RECURSIVE dag_insert_all(_, _, _, _)
\* A package met again on the path is left out and the walk goes on.
dag_insert_breaking_cycle(pkgs, p, acc, path) ==
    IF ~acc.ok \/ p \in Range(acc.visited) \/ p \in path THEN acc
    ELSE LET below == dag_insert_all(pkgs, DepsIn(pkgs, p), acc, path \cup {p})
         IN [ok |-> below.ok, visited |-> Append(below.visited, p)]

dag_insert(pkgs, p, acc, path) ==
    IF ~acc.ok \/ p \in Range(acc.visited) THEN acc
    ELSE IF p \in path THEN [ok |-> FALSE, visited |-> acc.visited]
    ELSE LET below == dag_insert_all(pkgs, DepsIn(pkgs, p), acc, path \cup {p})
         IN IF below.ok THEN [ok |-> TRUE, visited |-> Append(below.visited, p)]
            ELSE below

dag_insert_all(pkgs, ps, acc, path) ==
    IF ps = <<>> THEN acc
    ELSE dag_insert_all(pkgs, Tail(ps), dag_insert(pkgs, Head(ps), acc, path), path)

dag(pkgs) == dag_insert_all(pkgs, pkgs, [ok |-> TRUE, visited |-> <<>>], {})

----------------------------------------------------------------------------
(* Publish::run, publish.rs lines 44-154 *)

\* lines 46-69: the packages handed to dag
PlanPkgs ==
    IF from_git THEN MetaPackages
    ELSE IF versioned = "some" THEN SelectSeq(MetaPackages, LAMBDA p : p \in new_versions)
    ELSE <<>>

\* lines 48-49: git_data is Some only when do_versioning returned a plan
HasGitData == ~from_git /\ versioned = "some"

\* The filter keeps only the packages with no publish list.
IsPublishableWithoutList(p) == publish[p] = "none"

\* lines 78-79: the filter keeps a package with no publish list or a non-empty one
IsPublishable(p) == publish[p] = "none" \/ ~(publish[p] = "empty")

\* lines 74-84
FilterPrivate(order) == SelectSeq(order, LAMBDA p : IsPublishable(p))

\* pkg.rs line 248 / Pkg.private
IsPrivate(p) == publish[p] = "empty"

\* The tags do_versioning hands to Publish::run (line 48): what global_tag and
\* individual_tag returned for the plan.
VersioningTags ==
    (IF GlobalTagSkipped(git) THEN <<>> ELSE <<GlobalTagName>>)
    \o [i \in 1..Len(SelectSeq(PlanPkgs, LAMBDA p : ~IndividualTagSkipped(git, FALSE, IsPrivate(p))))
          |-> IndividualTagName(SelectSeq(PlanPkgs,
                 LAMBDA p : ~IndividualTagSkipped(git, FALSE, IsPrivate(p)))[i])]

\* The packages the loop of line 86 has reached, in order: each iteration starts
\* with the registry query.
Reached(l) ==
    LET q == SelectSeq(l, LAMBDA ev : ev[1] \in {"listed", "unlisted", "query_failed"})
    IN [i \in 1..Len(q) |-> q[i][2]]

\* The loop walks the order from its end.
CurrentReversed == visited[Len(visited) + 1 - idx]

\* line 86: the package the loop is at
Current == visited[idx]

\* the run has invoked no publish command yet
NoCargoOut == [ran |-> FALSE, uploading |-> FALSE, error |-> FALSE]

\* The answer of the registry is ignored.
AfterQueryIgnoringIndex(is_published) == "cargo"

\* lines 104-107: what follows the registry query
AfterQuery(is_published) == IF is_published THEN "skip" ELSE "cargo"

\* The error marker is not looked for.
PublishSucceededIgnoringError(stderr) == stderr.uploading

\* line 132: the output of the publish command counts as a success
PublishSucceeded(stderr) == ~(~stderr.uploading \/ stderr.error)

\* The run goes on to the next package without waiting.
AfterUploadNoWait == "loop"

\* line 136: after a successful upload the run waits for the index
AfterUpload == "poll"

\* The git steps run whatever do_versioning returned.
AfterLoopAlwaysGit == "validate"

\* lines 141-153: after the loop
AfterLoop == IF HasGitData THEN "validate" ELSE "done"

\* The error is recorded and the loop goes on (`continue` for `return`).
FailAndContinue(e) ==
    /\ pc' = "loop"
    /\ result' = e

\* `?` and `return Err(..)`: the run returns the error
Fail(e) ==
    /\ pc' = "done"
    /\ result' = e

\* Package.publish of the workspace members: "none" for a manifest without the
\* field, "empty" for `publish = []`, "named" for a list of registries; at most
\* one member declares the field
PublishFields(values) ==
    {f \in [Pkgs -> values] : \E q \in Pkgs : \A p \in Pkgs \ {q} : f[p] = "none"}

\* no run of the publish pipeline has started
PublishIdle ==
    /\ uploaded = {}
    /\ indexed = {}
    /\ run = 0
    /\ pc = "idle"
    /\ visited = <<>>
    /\ unfiltered = <<>>
    /\ idx = 1
    /\ polls = 0
    /\ cargoOut = NoCargoOut
    /\ result = "none"
    /\ branch = None
    /\ log = <<>>
    /\ pushCmds = <<>>
    /\ firstOrder = <<>>
    /\ republished = {}

\* no release has started, the repository has no tag
GitIdle ==
    /\ localTags = {}
    /\ grun = 0
    /\ gpc = "idle"
    /\ gi = 1
    /\ gtags = <<>>
    /\ gcreated = {}
    /\ gresult = "none"
    /\ glog = <<>>
    /\ tagLog = <<>>

\* get_group_packages has not been called
GroupIdle ==
    /\ groups = <<>>
    /\ exclude = <<>>
    /\ all = FALSE
    /\ inherits = {}
    /\ found = Pkgs
    /\ cpc = "idle"
    /\ wi = 1
    /\ named_groups = <<>>
    /\ non_empty = FALSE
    /\ cresult = [kind |-> "none"]

\* validate has not been called
ValidateIdle ==
    /\ cfg_allow = None
    /\ env = [notGit |-> FALSE, revCount |-> "1", remoteRefs |-> {}, head |-> "HEAD",
              left |-> "0", right |-> "0", updateOk |-> TRUE]
    /\ vpc = "idle"
    /\ vresult = Ok(None)

\* --registry is not given; the loop has reached no package
RegistryIdle ==
    /\ registry = None
    /\ regs = <<>>

\* no operation of GitOpt has been called on its own
NoCallArgs == [is_private |-> FALSE, no_individual_tags |-> FALSE, b |-> None, tags |-> <<>>]

CallIdle ==
    /\ callOp = "idle"
    /\ callArgs = NoCallArgs
    /\ callCmds = <<>>
    /\ callRet = Ok(None)

\* Exec::run has not been called
ExecIdle ==
    /\ no_bail = FALSE
    /\ epc = "idle"
    /\ ei = 1
    /\ elog = <<>>
    /\ eresult = "none"

\* global_tag has built no message
NoTagMsgs == [ok |-> TRUE, val |-> <<>>]

\* no tag message has been built; --tag-msg is not given
TagMsgIdle ==
    /\ tag_msg = <<>>
    /\ tplan = <<>>
    /\ tpc = "idle"
    /\ tmsgs = NoTagMsgs

InitPublish ==
    /\ deps \in {d \in [Pkgs -> SUBSET Pkgs] :
                   /\ \A p \in Pkgs : p \notin d[p]
                   /\ Cardinality({e \in Pkgs \X Pkgs : e[2] \in d[e[1]]}) <= MaxDeps}
    /\ publish \in PublishFields({"none", "empty", "named"})
    /\ from_git \in BOOLEAN
    /\ versioned \in (IF from_git THEN {"none"} ELSE {"err", "none", "some"})
    /\ new_versions \in (IF versioned = "some" THEN {s \in SUBSET Pkgs : Cardinality(s) >= 2} ELSE {{}})
    /\ git \in (IF versioned = "some" THEN PublishGitOpts ELSE {GitOptDefault})
    /\ PublishIdle
    /\ GitIdle
    /\ GroupIdle
    /\ RegistryIdle
    /\ CallIdle
    /\ ExecIdle
    /\ ValidateIdle
    /\ TagMsgIdle

\* lines 44-84: a run starts; do_versioning, dag and the filter
StartRun ==
    /\ pc \in {"idle", "done"}
    /\ run < MaxRuns
    /\ run' = run + 1
    /\ firstOrder' = IF run = 1 THEN Reached(log) ELSE firstOrder
    /\ log' = <<>>
    /\ pushCmds' = <<>>
    /\ branch' = None
    /\ idx' = 1
    /\ polls' = 0
    /\ cargoOut' = NoCargoOut
    /\ IF ~from_git /\ versioned = "err"
       THEN /\ Fail("Versioning")
            /\ UNCHANGED <<visited, unfiltered>>
       ELSE LET d == dag(PlanPkgs)
            IN IF ~d.ok
               THEN /\ Fail("DependencyCycle")
                    /\ UNCHANGED <<visited, unfiltered>>
               ELSE /\ unfiltered' = d.visited
                    /\ visited' = FilterPrivate(d.visited)
                    /\ pc' = "loop"
                    /\ result' = "none"
    /\ UNCHANGED <<nonPublishVars, inputVars, uploaded, indexed, republished>>

\* lines 86-107: the registry index is resolved and queried for the package.
\* The log records what the index reported, then what the run did with it.
Query ==
    /\ pc = "loop"
    /\ idx <= Len(visited)
    /\ \E io_ok \in BOOLEAN :
         IF ~io_ok
         THEN /\ Fail("CratesRegistry")
              /\ log' = Append(log, <<"query_failed", Current>>)
              /\ UNCHANGED idx
         ELSE LET is_published == Current \in indexed
                  seen == <<(IF is_published THEN "listed" ELSE "unlisted"), Current>>
              IN IF AfterQuery(is_published) = "skip"
                 THEN /\ log' = log \o <<seen, <<"skip", Current>>>>
                      /\ idx' = idx + 1
                      /\ UNCHANGED <<pc, result>>
                 ELSE /\ log' = Append(log, seen)
                      /\ pc' = "cargo"
                      /\ UNCHANGED <<idx, result>>
    /\ UNCHANGED <<cargoOut, nonPublishVars, inputVars, uploaded, indexed, run, visited, unfiltered, polls, branch,
                   pushCmds, firstOrder, republished>>

\* lines 109-134: the publish command is invoked and its output inspected.
\* The registry accepts a version once: cargo reports an error for a version
\* it already holds.
Cargo ==
    /\ pc = "cargo"
    /\ \E stderr \in [uploading : BOOLEAN, error : BOOLEAN] :
         /\ Current \in uploaded => stderr.error
         /\ cargoOut' = [ran |-> TRUE, uploading |-> stderr.uploading, error |-> stderr.error]
         /\ republished' = IF Current \in uploaded THEN republished \cup {Current}
                           ELSE republished
         /\ IF PublishSucceeded(stderr)
            THEN /\ uploaded' = uploaded \cup {Current}
                 /\ log' = log \o <<<<"publish", Current>>, <<"uploaded", Current>>>>
                 /\ pc' = AfterUpload
                 /\ idx' = IF AfterUpload = "poll" THEN idx ELSE idx + 1
                 /\ polls' = 0
                 /\ UNCHANGED result
            ELSE /\ Fail("Publish")
                 /\ log' = log \o <<<<"publish", Current>>, <<"failed", Current>>>>
                 /\ UNCHANGED <<uploaded, polls, idx>>
    /\ UNCHANGED <<nonPublishVars, inputVars, indexed, run, visited, unfiltered, branch, pushCmds,
                   firstOrder>>

\* The attempt is not counted.
PollsAfterMissNotCounted(n) == n

\* check_index: the attempts made once one more has not found the version
PollsAfterMiss(n) == n + 1

\* line 136, check_index: one attempt of the bounded poll of the registry index
Poll ==
    /\ pc = "poll"
    /\ IF Current \in indexed
       THEN /\ log' = Append(log, <<"seen", Current>>)
            /\ idx' = idx + 1
            /\ pc' = "loop"
            /\ UNCHANGED <<polls, result>>
       ELSE IF PollsAfterMiss(polls) >= MaxPolls
            THEN /\ Fail("PublishTimeout")
                 /\ log' = Append(log, <<"timeout", Current>>)
                 /\ UNCHANGED <<idx, polls>>
            ELSE /\ polls' = PollsAfterMiss(polls)
                 /\ UNCHANGED <<log, idx, pc, result>>
    /\ UNCHANGED <<cargoOut, nonPublishVars, inputVars, uploaded, indexed, run, visited, unfiltered, branch, pushCmds,
                   firstOrder, republished>>

\* lines 139-141 and 152-153: the loop is over
LoopEnd ==
    /\ pc = "loop"
    /\ idx > Len(visited)
    /\ pc' = AfterLoop
    /\ result' = IF AfterLoop = "done" THEN "Ok" ELSE result
    /\ UNCHANGED <<cargoOut, nonPublishVars, inputVars, uploaded, indexed, run, visited, unfiltered, idx, polls,
                   branch, log, pushCmds, firstOrder, republished>>

\* lines 142-145: validate, in whatever state the repository is
Validate ==
    /\ pc = "validate"
    /\ \E r \in {validate(git, None, e) : e \in GitEnvs} :
            IF r.err # None
            THEN /\ Fail(r.err)
                 /\ log' = Append(log, <<"validate", r.err>>)
                 /\ UNCHANGED branch
            ELSE /\ branch' = r.val
                 /\ log' = Append(log, <<"validate", "Ok">>)
                 /\ pc' = "push"
                 /\ UNCHANGED result
    /\ UNCHANGED <<cargoOut, nonPublishVars, inputVars, uploaded, indexed, run, visited, unfiltered, idx, polls,
                   pushCmds, firstOrder, republished>>

\* lines 147-153: push
Push ==
    /\ pc = "push"
    /\ pc' = "done"
    /\ IF PushIsNoop(git, branch, VersioningTags)
       THEN /\ result' = "Ok"
            /\ log' = Append(log, <<"push", "noop">>)
            /\ UNCHANGED pushCmds
       ELSE \E exit_ok \in BOOLEAN :
              /\ pushCmds' = Append(pushCmds, PushCommand(branch, VersioningTags))
              /\ result' = PushResult(exit_ok)
              /\ log' = Append(log, <<"push", PushResult(exit_ok)>>)
    /\ UNCHANGED <<cargoOut, nonPublishVars, inputVars, uploaded, indexed, run, visited, unfiltered, idx, polls,
                   branch, firstOrder, republished>>

\* The registry: an accepted version shows in the index after some delay.
Propagate ==
    /\ \E p \in uploaded \ indexed : indexed' = indexed \cup {p}
    /\ UNCHANGED <<cargoOut, nonPublishVars, inputVars, uploaded, run, pc, visited, unfiltered, idx, polls, result,
                   branch, log, pushCmds, firstOrder, republished>>

Init == InitPublish

Next ==
    \/ StartRun
    \/ Query
    \/ Cargo
    \/ Poll
    \/ LoopEnd
    \/ Validate
    \/ Push
    \/ Propagate

Spec == Init /\ [][Next]_vars

\* The steps of Publish::run itself. The program is sequential and every call
\* it makes blocks until it returns (spec 5), so a run that can take a step
\* takes it; nothing makes the registry index show a version, and nothing
\* starts another run.
ProgramStep == Query \/ Cargo \/ Poll \/ LoopEnd \/ Validate \/ Push

\* The workspaces of the termination check declare at most one dependency edge.
InitFair ==
    /\ InitPublish
    /\ Cardinality({e \in Pkgs \X Pkgs : e[2] \in deps[e[1]]}) <= 1

SpecFair == InitFair /\ [][Next]_vars /\ WF_vars(ProgramStep)

\* The publish pipeline over the same workspaces, without the fairness.
SpecOneEdge == InitFair /\ [][Next]_vars

----------------------------------------------------------------------------
(* The git release state machine, utils/git.rs: validate, commit, global_tag, *)
(* individual_tag for each package of the plan, push; run again after it      *)
(* ended, with the same plan, as when a failed release is resumed.            *)

MaxReleases == 2   \* releases run one after the other

\* The option combinations clap accepts (the conflicts_with_all lists of
\* lines 40, 61, 65, 99 and 112).
GitOpts ==
    {o \in [no_git : BOOLEAN, no_git_commit : BOOLEAN, no_git_tag : BOOLEAN,
            no_individual_tags : BOOLEAN, no_global_tag : BOOLEAN, tag_private : BOOLEAN,
            no_git_push : BOOLEAN, allow_branch : {None}] :
       /\ o.no_git => ~(o.no_git_commit \/ o.no_git_tag \/ o.no_individual_tags
                        \/ o.no_global_tag \/ o.tag_private \/ o.no_git_push)
       /\ o.no_git_tag => ~(o.no_individual_tags \/ o.no_global_tag \/ o.tag_private)}

\* every tag name a release of the plan can use, in the order `git tag` lists them
AllTagNames ==
    [i \in 1..Len(MetaPackages) |-> IndividualTagName(MetaPackages[i])] \o <<GlobalTagName>>

\* line 386: stdout of `git tag`, trimmed, split at "\n". An empty output
\* splits into one empty line.
TagLines(tags) ==
    IF tags = {} THEN <<<<>>>> ELSE SelectSeq(AllTagNames, LAMBDA t : t \in tags)

\* The tag is never found in the list.
TagNeverFound(tag, lines) == FALSE

\* line 387: the tag is one of the lines
TagFound(tag, lines) == \E i \in 1..Len(lines) : lines[i] = tag

\* lines 313-315 and 344-346: the tag step returns Some(tag) once GitOpt::tag
\* returned Ok, whether it created the tag or found it
TagReturned(tag, existed) == <<tag>>

\* GitOpt::tag, lines 385-406, for the tag `tag`, `git tag -a` exiting with
\* exit_ok. git refuses to create a tag that exists.
Tag(tag, exit_ok) ==
    LET existed == tag \in localTags
    IN IF ~TagFound(tag, TagLines(localTags))
       THEN /\ existed => ~exit_ok
            /\ glog' = Append(glog, [cmd |-> "tag -a", tag |-> tag, ok |-> exit_ok])
            /\ tagLog' = Append(tagLog, [tag |-> tag, existed |-> existed, ran |-> TRUE,
                                         ok |-> exit_ok])
            /\ IF exit_ok
               THEN /\ localTags' = localTags \cup {tag}
                    /\ gcreated' = gcreated \cup {tag}
                    /\ gtags' = gtags \o TagReturned(tag, existed)
                    /\ UNCHANGED gresult
               ELSE /\ gresult' = "NotTagged"
                    /\ UNCHANGED <<localTags, gcreated, gtags>>
       ELSE /\ tagLog' = Append(tagLog, [tag |-> tag, existed |-> existed, ran |-> FALSE,
                                         ok |-> TRUE])
            /\ gtags' = gtags \o TagReturned(tag, existed)
            /\ UNCHANGED <<glog, localTags, gcreated, gresult>>

\* the version plan of the release, in the order of its map (by name)
ReleasePlan == SelectSeq(MetaPackages, LAMBDA p : p \in new_versions)

\* The values of --tag-msg of the releases: none; one message with a scope;
\* two messages, the second with a scope that is not closed.
ReleaseTagMsgs ==
    {<<>>,
     <<<<"%", "{", "%", "n", "@", "%", "v", " ", "}">>>>,
     <<<<"%", "v">>, <<"%", "{", "%", "n">>>>}

InitGit ==
    /\ deps = [p \in Pkgs |-> {}]
    /\ publish \in PublishFields({"none", "empty", "named"})
    /\ from_git = FALSE
    /\ versioned = "some"
    /\ new_versions \in {s \in SUBSET Pkgs : Cardinality(s) >= 2}
    /\ git \in GitOpts
    /\ PublishIdle
    /\ GitIdle
    /\ GroupIdle
    /\ RegistryIdle
    /\ CallIdle
    /\ ExecIdle
    /\ ValidateIdle
    /\ tag_msg \in ReleaseTagMsgs
    /\ tplan = [i \in 1..Len(ReleasePlan) |->
                  [name |-> <<ReleasePlan[i]>>, version |-> <<new_version>>,
                   private |-> IsPrivate(ReleasePlan[i])]]
    /\ tpc = "idle"
    /\ tmsgs = NoTagMsgs

\* a release starts
GStart ==
    /\ gpc \in {"idle", "done"}
    /\ grun < MaxReleases
    /\ grun' = grun + 1
    /\ gpc' = "validate"
    /\ gi' = 1
    /\ gtags' = <<>>
    /\ gcreated' = {}
    /\ gresult' = "none"
    /\ glog' = <<>>
    /\ branch' = None
    /\ pushCmds' = <<>>
    /\ tmsgs' = NoTagMsgs
    /\ UNCHANGED <<execVars, callVars, regVars, tag_msg, tplan, tpc, valVars, grpVars, inputVars, runVars, localTags, tagLog>>

\* validate, lines 122-219
GValidate ==
    /\ gpc = "validate"
    /\ \E r \in {validate(git, None, e) : e \in GitEnvs} :
         IF r.err # None
         THEN /\ gpc' = "done"
              /\ gresult' = r.err
              /\ UNCHANGED branch
         ELSE /\ gpc' = "commit"
              /\ branch' = r.val
              /\ UNCHANGED gresult
    /\ UNCHANGED <<execVars, callVars, regVars, tmplVars, valVars, grpVars, inputVars, runVars, pushCmds, localTags, grun, gi, gtags, gcreated,
                   glog, tagLog>>

\* commit, lines 221-272
GCommit ==
    /\ gpc = "commit"
    /\ IF git.no_git \/ git.no_git_commit
       THEN /\ gpc' = "global_tag"
            /\ UNCHANGED <<glog, gresult>>
       ELSE \E added, committed \in BOOLEAN :
              IF ~added
              THEN /\ glog' = Append(glog, [cmd |-> "add", tag |-> <<>>, ok |-> FALSE])
                   /\ gresult' = "NotAdded"
                   /\ gpc' = "done"
              ELSE /\ glog' = glog \o <<[cmd |-> "add", tag |-> <<>>, ok |-> TRUE],
                                        [cmd |-> "commit", tag |-> <<>>, ok |-> committed]>>
                   /\ gresult' = IF committed THEN gresult ELSE "NotCommitted"
                   /\ gpc' = IF committed THEN "global_tag" ELSE "done"
    /\ UNCHANGED <<execVars, callVars, regVars, tmplVars, valVars, grpVars, inputVars, runVars, branch, pushCmds, localTags, grun, gi, gtags,
                   gcreated, tagLog>>

\* global_tag, lines 274-316: the messages are built, then the tag is made
GGlobalTag ==
    /\ gpc = "global_tag"
    /\ IF GlobalTagSkipped(git)
       THEN /\ gpc' = "individual_tag"
            /\ UNCHANGED <<localTags, gtags, gcreated, gresult, glog, tagLog, tmsgs>>
       ELSE LET m == TagMsgs(tag_msg, tplan, git.tag_private, <<new_version>>, GlobalTagName)
            IN /\ tmsgs' = m
               /\ IF ~m.ok
                  THEN /\ gresult' = "UnterminatedTagMsgScope"
                       /\ gpc' = "done"
                       /\ UNCHANGED <<localTags, gtags, gcreated, glog, tagLog>>
                  ELSE \E exit_ok \in BOOLEAN :
                         /\ Tag(GlobalTagName, exit_ok)
                         /\ gpc' = IF gresult' = "NotTagged" THEN "done" ELSE "individual_tag"
    /\ UNCHANGED <<execVars, callVars, regVars, tag_msg, tplan, tpc, valVars, grpVars, inputVars, runVars, branch, pushCmds,
                   grun, gi>>

\* individual_tag for the next package of the plan, lines 318-347
GIndividualTag ==
    /\ gpc = "individual_tag"
    /\ gi <= Len(ReleasePlan)
    /\ gi' = gi + 1
    /\ LET p == ReleasePlan[gi]
           next == IF gi = Len(ReleasePlan) THEN "push" ELSE "individual_tag"
       IN IF IndividualTagSkipped(git, FALSE, IsPrivate(p))
          THEN /\ gpc' = next
               /\ UNCHANGED <<localTags, gtags, gcreated, gresult, glog, tagLog>>
          ELSE \E exit_ok \in BOOLEAN :
                 /\ Tag(IndividualTagName(p), exit_ok)
                 /\ gpc' = IF gresult' = "NotTagged" THEN "done" ELSE next
    /\ UNCHANGED <<execVars, callVars, regVars, tmplVars, valVars, grpVars, inputVars, runVars, branch, pushCmds, grun>>

\* push, lines 349-383, with the branch validate returned and the tags the
\* tag steps returned
GPush ==
    /\ gpc = "push"
    /\ gpc' = "done"
    /\ IF PushIsNoop(git, branch, gtags)
       THEN /\ gresult' = "Ok"
            /\ UNCHANGED <<pushCmds, glog>>
       ELSE \E exit_ok \in BOOLEAN :
              /\ pushCmds' = Append(pushCmds, PushCommand(branch, gtags))
              /\ glog' = Append(glog, [cmd |-> "push", tag |-> <<>>, ok |-> exit_ok])
              /\ gresult' = PushResult(exit_ok)
    /\ UNCHANGED <<execVars, callVars, regVars, tmplVars, valVars, grpVars, inputVars, runVars, branch, localTags, grun, gi, gtags, gcreated, tagLog>>

NextGit ==
    \/ GStart
    \/ GValidate
    \/ GCommit
    \/ GGlobalTag
    \/ GIndividualTag
    \/ GPush

SpecGit == InitGit /\ [][NextGit]_vars

----------------------------------------------------------------------------
(* get_group_packages, utils/pkg.rs lines 212-423 *)

MaxPatterns == 2   \* member patterns of a group, and of the exclusion group

\* metadata.workspace_members, in the order of their ids
WorkspaceMembers == <<"c", "a", "b">>

\* Pkg.path, lines 250-275: the directory of the manifest below the workspace
\* root, the command being run from the workspace root
PkgPath(p) ==
    CASE p = "a" -> "crates/internal"
      [] p = "b" -> "crates/api"
      [] p = "c" -> "tools/cli"

MemberPatterns == {"crates/*", "crates/internal", "docs/*"}

\* the non-empty lists of distinct patterns a group can declare
PatternLists ==
    {m \in UNION {[1..n -> MemberPatterns] : n \in 1..MaxPatterns} :
       \A i, j \in 1..Len(m) : i # j => m[i] # m[j]}

\* GroupName, lines 117-125
Default == <<"Default">>
Excluded == <<"Excluded">>
Custom(name) == <<"Custom", name>>

\* lines 284 and 299: member.matches(&pkg.path)
Matches(pat, p) == is_match(Chars(pat), Chars(PkgPath(p)))

\* The last pattern of the list that matches the package is the one recorded.
LastMatch(pats, p) ==
    IF \E i \in 1..Len(pats) : Matches(pats[i], p)
    THEN CHOOSE i \in 1..Len(pats) :
           Matches(pats[i], p) /\ \A j \in (i + 1)..Len(pats) : ~Matches(pats[j], p)
    ELSE 0

\* the first pattern of a list that matches the package, 0 when none does
FirstMatch(pats, p) ==
    IF \E i \in 1..Len(pats) : Matches(pats[i], p)
    THEN CHOOSE i \in 1..Len(pats) :
           Matches(pats[i], p) /\ \A j \in 1..(i - 1) : ~Matches(pats[j], p)
    ELSE 0

\* The search stops at the first custom group with a matching pattern.
MatchedGroupsFirstOnly(p) ==
    LET hit == SelectSeq(groups, LAMBDA g : FirstMatch(g.members, p) # 0)
    IN IF hit = <<>> THEN <<>>
       ELSE <<<<Custom(hit[1].name), hit[1].members[FirstMatch(hit[1].members, p)]>>>>

\* lines 293-307: one entry for each custom group with a matching pattern, with
\* the first of its patterns that matches
MatchedGroups(p) ==
    LET hit == SelectSeq(groups, LAMBDA g : FirstMatch(g.members, p) # 0)
    IN [i \in 1..Len(hit) |->
          <<Custom(hit[i].name), hit[i].members[FirstMatch(hit[i].members, p)]>>]

\* The exclusion patterns are tested only for a package no custom group matches.
ExcludeMatchUnlessGrouped(p) ==
    IF MatchedGroups(p) # <<>> THEN 0 ELSE FirstMatch(exclude, p)

\* lines 282-291: the exclusion patterns are tested first; `exclude` is the member
\* list of config.exclude, empty when the workspace declares none
ExcludeMatch(p) == FirstMatch(exclude, p)

GroupNamesOf(m) == [i \in 1..Len(m) |-> m[i][1]]

\* The flag is set as soon as the package is found in the metadata.
MarksNonEmptyAlways(p) == TRUE

\* line 295: `non_empty |= true` is reached by a package no exclusion pattern
\* matches
MarksNonEmpty(p) == ExcludeMatch(p) = 0

\* The inheritance check is made only for a package several groups match.
InheritsConflictIfAmbiguous(p, m) == p \in inherits /\ Len(m) > 1

\* lines 309-326: the manifest parses, its version is a table, and some custom
\* group matched
InheritsConflict(p, m) == p \in inherits /\ m # <<>>

\* lines 281-343: the group of a package, or the conflict
found_group(p) ==
    IF ExcludeMatch(p) # 0
    THEN [err |-> FALSE, group |-> Excluded, pat |-> exclude[ExcludeMatch(p)]]
    ELSE LET m == MatchedGroups(p)
         IN IF InheritsConflict(p, m)
            THEN [err |-> TRUE, inherits |-> TRUE, groups |-> GroupNamesOf(m)]
            ELSE IF Len(m) = 0 THEN [err |-> FALSE, group |-> Default, pat |-> None]
            ELSE IF Len(m) = 1 THEN [err |-> FALSE, group |-> m[1][1], pat |-> m[1][2]]
            ELSE [err |-> TRUE, inherits |-> FALSE, groups |-> GroupNamesOf(m)]

\* lines 219-244: the groups before any package is pushed
InitialNamedGroups ==
    [g \in {Default, Excluded} \cup {Custom(groups[i].name) : i \in 1..Len(groups)} |-> <<>>]

\* lines 364-379: for each custom group, its patterns that no package of the
\* group was recorded with
UnmatchedCustom ==
    LET miss(g) == {g.members[i] : i \in 1..Len(g.members)}
                   \ {named_groups[Custom(g.name)][k][2] :
                        k \in 1..Len(named_groups[Custom(g.name)])}
        bad == {i \in 1..Len(groups) : miss(groups[i]) # {}}
    IN [n \in {groups[i].name : i \in bad} |->
          miss(groups[CHOOSE i \in bad : groups[i].name = n])]

\* lines 385-395: the exclusion patterns no excluded package was recorded with
UnmatchedExclude ==
    Range(exclude) \ {named_groups[Excluded][k][2] : k \in 1..Len(named_groups[Excluded])}

\* line 405: sort_by_key on the package name
NameBefore(x, y) == IndexOf(MetaPackages, x[1]) < IndexOf(MetaPackages, y[1])

\* The groups left without a package are dropped from the result.
GroupsOutNonEmpty ==
    LET out(g) == SelectSeq(SortSeq(named_groups[g], NameBefore),
                            LAMBDA x : all \/ ~IsPrivate(x[1]))
    IN [g \in {h \in DOMAIN named_groups : out(h) # <<>>} |->
          [i \in 1..Len(out(g)) |-> out(g)[i][1]]]

\* lines 403-422: each group sorted by name, private packages dropped unless `all`
GroupsOut ==
    [g \in DOMAIN named_groups |->
       LET sorted == SortSeq(named_groups[g], NameBefore)
           kept == SelectSeq(sorted, LAMBDA x : all \/ ~IsPrivate(x[1]))
       IN [i \in 1..Len(kept) |-> kept[i][1]]]

\* workspace_config.groups: no group, the group `release`, or `release` and a
\* second group `tools` of one pattern
GroupConfigs ==
    {<<>>}
    \cup {<<[name |-> "release", members |-> m]>> : m \in PatternLists}
    \cup {<<[name |-> "release", members |-> m1], [name |-> "tools", members |-> <<pat>>]>> :
            m1 \in PatternLists, pat \in MemberPatterns}

InitGroup ==
    /\ deps = [p \in Pkgs |-> {}]
    /\ publish \in PublishFields({"none", "empty"})
    /\ from_git = FALSE
    /\ versioned = "none"
    /\ new_versions = {}
    /\ git = GitOptDefault
    /\ PublishIdle
    /\ GitIdle
    /\ ValidateIdle
    /\ TagMsgIdle
    /\ RegistryIdle
    /\ CallIdle
    /\ ExecIdle
    /\ groups \in GroupConfigs
    /\ exclude \in {<<>>} \cup PatternLists
    /\ all \in (IF \E p \in Pkgs : publish[p] = "empty" THEN BOOLEAN ELSE {FALSE})
    /\ inherits \in {{}} \cup {{p} : p \in Pkgs}
    /\ found \in {Pkgs} \cup {Pkgs \ {p} : p \in Pkgs}
    /\ cpc = "idle"
    /\ wi = 1
    /\ named_groups = <<>>
    /\ non_empty = FALSE
    /\ cresult = [kind |-> "none"]

\* lines 217-244: the call starts
StartGroups ==
    /\ cpc = "idle"
    /\ cpc' = "loop"
    /\ named_groups' = InitialNamedGroups
    /\ UNCHANGED <<execVars, callVars, regVars, tmplVars, valVars, inputVars, runVars, branch, pushCmds, gitVars, grpInputs, wi, non_empty,
                   cresult>>

\* lines 246-356: one iteration of the loop over the workspace members
Classify ==
    /\ cpc = "loop"
    /\ wi <= Len(WorkspaceMembers)
    /\ LET p == WorkspaceMembers[wi]
           f == found_group(p)
       IN IF p \notin found
          THEN \* lines 350-355: PackageNotFound is printed, the loop goes on
               /\ wi' = wi + 1
               /\ UNCHANGED <<cpc, cresult, named_groups, non_empty>>
          ELSE /\ non_empty' = (non_empty \/ MarksNonEmpty(p))
               /\ IF f.err
                  THEN /\ cresult' = [kind |-> "PackageExistsInMultipleGroups",
                                      name |-> p, inherits |-> f.inherits,
                                      groups |-> f.groups]
                       /\ cpc' = "done"
                       /\ UNCHANGED <<wi, named_groups>>
                  ELSE /\ named_groups' =
                             [named_groups EXCEPT ![f.group] = Append(@, <<p, f.pat>>)]
                       /\ wi' = wi + 1
                       /\ UNCHANGED <<cpc, cresult>>
    /\ UNCHANGED <<execVars, callVars, regVars, tmplVars, valVars, inputVars, runVars, branch, pushCmds, gitVars, grpInputs>>

\* lines 358-423: the checks after the loop, and the result
FinishGroups ==
    /\ cpc = "loop"
    /\ wi > Len(WorkspaceMembers)
    /\ cpc' = "done"
    /\ cresult' =
          IF ~non_empty THEN [kind |-> "EmptyWorkspace"]
          ELSE IF DOMAIN UnmatchedCustom # {}
               THEN [kind |-> "UnmatchedCustomGroupPattern", patterns |-> UnmatchedCustom]
          ELSE IF UnmatchedExclude # {}
               THEN [kind |-> "UnmatchedExcludeGroupPattern", patterns |-> UnmatchedExclude]
          ELSE [kind |-> "Ok", named_groups |-> GroupsOut]
    /\ UNCHANGED <<execVars, callVars, regVars, tmplVars, valVars, inputVars, runVars, branch, pushCmds, gitVars, grpInputs, wi,
                   named_groups, non_empty>>

NextGroup ==
    \/ StartGroups
    \/ Classify
    \/ FinishGroups

SpecGroup == InitGroup /\ [][NextGroup]_vars

----------------------------------------------------------------------------
(* One call of GitOpt::validate, utils/git.rs lines 122-219 *)

\* values of --allow-branch and of the workspace configuration's allow_branch
AllowPatterns == {"master", "main", "*", "feature/*"}

\* The options validate reads, in the combinations clap accepts: --allow-branch
\* conflicts with --no-git-commit (line 40) and with --no-git (line 112).
ValidateOpts ==
    {[o EXCEPT !.allow_branch = a] :
       o \in {g \in GitOpts : ~g.tag_private}, a \in {None} \cup AllowPatterns}
    \ {o \in [no_git : BOOLEAN, no_git_commit : BOOLEAN, no_git_tag : BOOLEAN,
              no_individual_tags : BOOLEAN, no_global_tag : BOOLEAN, tag_private : BOOLEAN,
              no_git_push : BOOLEAN, allow_branch : AllowPatterns] :
         o.no_git \/ o.no_git_commit}

ValidateEnvs ==
    [notGit : BOOLEAN, revCount : {"0", "1"}, remoteRefs : SUBSET {"main", "feature/x"},
     head : {"HEAD", "main", "master", "feature/x"}, left : {"0", "1"}, right : {"0", "1"},
     updateOk : BOOLEAN]

InitValidate ==
    /\ deps = [p \in Pkgs |-> {}]
    /\ publish = [p \in Pkgs |-> "none"]
    /\ from_git = FALSE
    /\ versioned = "none"
    /\ new_versions = {}
    /\ git \in ValidateOpts
    /\ PublishIdle
    /\ GitIdle
    /\ GroupIdle
    /\ RegistryIdle
    /\ CallIdle
    /\ ExecIdle
    /\ TagMsgIdle
    /\ cfg_allow \in {None} \cup AllowPatterns
    /\ env \in ValidateEnvs
    /\ vpc = "idle"
    /\ vresult = Ok(None)

\* lines 122-219: the call
VValidate ==
    /\ vpc = "idle"
    /\ vpc' = "done"
    /\ vresult' = validate(git, cfg_allow, env)
    /\ UNCHANGED <<execVars, callVars, inputVars, runVars, branch, pushCmds, gitVars, grpVars, tmplVars, regVars,
                   cfg_allow, env>>

NextValidate == VValidate

SpecValidate == InitValidate /\ [][NextValidate]_vars

----------------------------------------------------------------------------
(* The messages of the global tag, utils/git.rs lines 284-311, for one value *)
(* of --tag-msg over the characters of the template language.               *)

MaxMsgLen == 5     \* characters of a tag message

TemplateChars == {"%", "{", "}", "n", "v"}

TagMsgValues == UNION {[1..k -> TemplateChars] : k \in 1..MaxMsgLen}

\* Version plans of two packages, `a` at version 1 and `v` at version 2, each
\* private or not.
TagPlans ==
    {<<[name |-> <<"a">>, version |-> <<"1">>, private |-> pa],
       [name |-> <<"v">>, version |-> <<"2">>, private |-> pv]>> : pa, pv \in BOOLEAN}

InitTagMsg ==
    /\ deps = [p \in Pkgs |-> {}]
    /\ publish = [p \in Pkgs |-> "none"]
    /\ from_git = FALSE
    /\ versioned = "none"
    /\ new_versions = {}
    /\ git \in {GitOptDefault, [GitOptDefault EXCEPT !.tag_private = TRUE]}
    /\ PublishIdle
    /\ GitIdle
    /\ GroupIdle
    /\ RegistryIdle
    /\ CallIdle
    /\ ExecIdle
    /\ ValidateIdle
    /\ tag_msg \in {<<>>} \cup {<<m>> : m \in TagMsgValues}
    /\ tplan \in TagPlans
    /\ tpc = "idle"
    /\ tmsgs = NoTagMsgs

\* lines 284-311: the messages of the tag
TGlobalTagMsgs ==
    /\ tpc = "idle"
    /\ tpc' = "done"
    /\ tmsgs' = TagMsgs(tag_msg, tplan, git.tag_private, <<new_version>>, GlobalTagName)
    /\ UNCHANGED <<execVars, callVars, inputVars, runVars, branch, pushCmds, gitVars, grpVars, valVars, regVars,
                   tag_msg, tplan>>

NextTagMsg == TGlobalTagMsgs

SpecTagMsg == InitTagMsg /\ [][NextTagMsg]_vars

----------------------------------------------------------------------------
(* The registries of the publish loop, publish.rs lines 86-120: for each      *)
(* package of the order, the index the loop consults and the registry the     *)
(* publish command is pointed at.                                             *)

\* the public registry: Index::new_cargo_default, and `cargo publish` without
\* --registry for a package with no publish list
DefaultRegistry == "crates-io"

\* the registry a manifest with `publish = [..]` names first
ListedRegistry == "internal"

\* the values of --registry
RegistryOptions == {None, "internal", "mirror"}

\* line 94: pkg.publish.as_deref().and_then(|x| x.get(0))
FirstListed(p) == IF publish[p] = "named" THEN ListedRegistry ELSE None

\* lines 93-102: the registry whose index is_published and check_index read
IndexRegistry(p) == IF FirstListed(p) # None THEN FirstListed(p) ELSE DefaultRegistry

\* lines 117-120: `--registry <value>` is passed when the option is given;
\* without it cargo uploads to the one registry the manifest lists, and to the
\* public registry for a manifest without a list
UploadRegistry(p) ==
    IF registry # None THEN registry
    ELSE IF FirstListed(p) # None THEN FirstListed(p)
    ELSE DefaultRegistry

\* lines 74-84 over metadata.packages in from-git mode
RegistryOrder == FilterPrivate(MetaPackages)

InitRegistry ==
    /\ deps = [p \in Pkgs |-> {}]
    /\ publish \in [Pkgs -> {"none", "empty", "named"}]
    /\ from_git = TRUE
    /\ versioned = "none"
    /\ new_versions = {}
    /\ git = GitOptDefault
    /\ PublishIdle
    /\ GitIdle
    /\ GroupIdle
    /\ ValidateIdle
    /\ TagMsgIdle
    /\ CallIdle
    /\ ExecIdle
    /\ registry \in RegistryOptions
    /\ regs = <<>>

\* lines 86-120 for the next package of the order
RResolve ==
    /\ idx <= Len(RegistryOrder)
    /\ idx' = idx + 1
    /\ regs' = Append(regs, [pkg |-> RegistryOrder[idx],
                             index |-> IndexRegistry(RegistryOrder[idx]),
                             upload |-> UploadRegistry(RegistryOrder[idx])])
    /\ UNCHANGED <<execVars, callVars, inputVars, uploaded, indexed, run, pc, visited, unfiltered, polls, cargoOut,
                   result, log, firstOrder, republished, branch, pushCmds, gitVars, grpVars,
                   valVars, tmplVars, registry>>

NextRegistry == RResolve

SpecRegistry == InitRegistry /\ [][NextRegistry]_vars

----------------------------------------------------------------------------
(* The packages in scope of Publish::run *)

\* SpecScope is the publish pipeline of Spec in a workspace that declares
\* exclusion patterns.

\* the exclusion lists get_group_packages accepts (pkg.rs lines 385-401): every
\* pattern is the one some member is recorded with, the first that matches it
ScopeExcludes ==
    {<<>>} \cup {m \in PatternLists : \A i \in 1..Len(m) : \E p \in Pkgs : FirstMatch(m, p) = i}

\* the packages get_group_packages leaves out of the group Excluded
InScope == {p \in Pkgs : ExcludeMatch(p) = 0}

InitScope ==
    /\ deps = [p \in Pkgs |-> {}]
    /\ publish = [p \in Pkgs |-> "none"]
    /\ from_git \in BOOLEAN
    /\ versioned \in (IF from_git THEN {"none"} ELSE {"none", "some"})
    /\ exclude \in ScopeExcludes
    \* do_versioning plans a version for packages in scope only
    /\ new_versions \in (IF versioned = "some" THEN (SUBSET InScope) \ {{}} ELSE {{}})
    /\ git = GitOptDefault
    /\ PublishIdle
    /\ GitIdle
    /\ ValidateIdle
    /\ TagMsgIdle
    /\ RegistryIdle
    /\ CallIdle
    /\ ExecIdle
    /\ groups = <<>>
    /\ all = FALSE
    /\ inherits = {}
    /\ found = Pkgs
    /\ cpc = "idle"
    /\ wi = 1
    /\ named_groups = <<>>
    /\ non_empty = FALSE
    /\ cresult = [kind |-> "none"]

SpecScope == InitScope /\ [][Next]_vars

----------------------------------------------------------------------------
(* The git commands of one call of validate, commit, global_tag,             *)
(* individual_tag or push, utils/git.rs lines 122-406.  Every command goes   *)
(* through `git` (lines 14-34); a command is named by its first arguments.   *)

\* validate, lines 122-219: the commands run before the call returns
validate_cmds(o, config_allow, e) ==
    IF o.no_git THEN <<>>
    ELSE <<"rev-list --count --all">> \o
         (IF e.notGit \/ e.revCount = "0" \/ NoPushRequired(o) THEN <<>>
          ELSE <<"for-each-ref">> \o
               (IF e.remoteRefs = {} THEN <<>>
                ELSE <<"rev-parse">> \o
                     (LET allow == EffectiveAllowBranch(o, config_allow)
                      IN IF e.head = "HEAD"
                            \/ ~is_match(Chars(allow), Chars(TestBranch(e.head, allow)))
                         THEN <<>>
                         ELSE <<"remote update", "rev-list --left-only">>)))

\* what a call returned, without the payload of an error
RetOf(r) == IF r.err # None THEN Err(r.err) ELSE IF r.val = None THEN Ok(None) ELSE Ok("Some")

\* commit, lines 221-272, `git add -u` and `git commit` exiting with added
\* and committed
commit_call(o, added, committed) ==
    IF o.no_git \/ o.no_git_commit THEN [cmds |-> <<>>, ret |-> Ok("()")]
    ELSE IF ~added THEN [cmds |-> <<"add -u">>, ret |-> Err("NotAdded")]
    ELSE [cmds |-> <<"add -u", "commit">>,
          ret |-> IF committed THEN Ok("()") ELSE Err("NotCommitted")]

\* GitOpt::tag, lines 385-406, in a repository whose tag list holds the tag
\* (listed) or not; `git tag -a` exits with exit_ok
tag_call(listed, exit_ok) ==
    IF ~listed
    THEN [cmds |-> <<"tag", "tag -a">>, ret |-> IF exit_ok THEN Ok("Some") ELSE Err("NotTagged")]
    ELSE [cmds |-> <<"tag">>, ret |-> Ok("Some")]

\* global_tag, lines 274-316, msgs_ok telling whether every scope of the
\* messages is closed
global_tag_call(o, msgs_ok, listed, exit_ok) ==
    IF GlobalTagSkipped(o) THEN [cmds |-> <<>>, ret |-> Ok(None)]
    ELSE IF ~msgs_ok THEN [cmds |-> <<>>, ret |-> Err("UnterminatedTagMsgScope")]
    ELSE tag_call(listed, exit_ok)

\* individual_tag, lines 318-347
individual_tag_call(o, config_no_individual_tags, is_private, listed, exit_ok) ==
    IF IndividualTagSkipped(o, config_no_individual_tags, is_private)
    THEN [cmds |-> <<>>, ret |-> Ok(None)]
    ELSE tag_call(listed, exit_ok)

\* push, lines 349-383
push_call(o, b, tags, exit_ok) ==
    IF PushIsNoop(o, b, tags) THEN [cmds |-> <<>>, ret |-> Ok("()")]
    ELSE [cmds |-> <<"push">>,
          ret |-> IF PushResult(exit_ok) = "Ok" THEN Ok("()") ELSE Err(PushResult(exit_ok))]

InitCall ==
    /\ deps = [p \in Pkgs |-> {}]
    /\ publish = [p \in Pkgs |-> "none"]
    /\ from_git = FALSE
    /\ versioned = "none"
    /\ new_versions = {}
    /\ git \in GitOpts
    /\ PublishIdle
    /\ GitIdle
    /\ GroupIdle
    /\ ValidateIdle
    /\ TagMsgIdle
    /\ RegistryIdle
    /\ CallIdle
    /\ ExecIdle

\* the frame of a call
CallFrame ==
    UNCHANGED <<inputVars, runVars, branch, pushCmds, gitVars, grpVars, valVars, tmplVars,
                regVars, execVars>>

CValidate ==
    /\ callOp = "idle"
    /\ \E e \in ValidateEnvs :
         /\ callCmds' = validate_cmds(git, None, e)
         /\ callRet' = RetOf(validate(git, None, e))
    /\ callOp' = "validate"
    /\ UNCHANGED callArgs
    /\ CallFrame

CCommit ==
    /\ callOp = "idle"
    /\ \E added, committed \in BOOLEAN :
         LET c == commit_call(git, added, committed)
         IN callCmds' = c.cmds /\ callRet' = c.ret
    /\ callOp' = "commit"
    /\ UNCHANGED callArgs
    /\ CallFrame

CGlobalTag ==
    /\ callOp = "idle"
    /\ \E msgs_ok, listed, exit_ok \in BOOLEAN :
         LET c == global_tag_call(git, msgs_ok, listed, exit_ok)
         IN callCmds' = c.cmds /\ callRet' = c.ret
    /\ callOp' = "global_tag"
    /\ UNCHANGED callArgs
    /\ CallFrame

CIndividualTag ==
    /\ callOp = "idle"
    /\ \E no_ind, is_private, listed, exit_ok \in BOOLEAN :
         LET c == individual_tag_call(git, no_ind, is_private, listed, exit_ok)
         IN /\ callCmds' = c.cmds
            /\ callRet' = c.ret
            /\ callArgs' = [NoCallArgs EXCEPT !.is_private = is_private,
                                              !.no_individual_tags = no_ind]
    /\ callOp' = "individual_tag"
    /\ CallFrame

CPush ==
    /\ callOp = "idle"
    /\ \E b \in {None, "main"}, tags \in {<<>>, <<GlobalTagName>>}, exit_ok \in BOOLEAN :
         LET c == push_call(git, b, tags, exit_ok)
         IN /\ callCmds' = c.cmds
            /\ callRet' = c.ret
            /\ callArgs' = [NoCallArgs EXCEPT !.b = b, !.tags = tags]
    /\ callOp' = "push"
    /\ CallFrame

NextCall ==
    \/ CValidate
    \/ CCommit
    \/ CGlobalTag
    \/ CIndividualTag
    \/ CPush

SpecCall == InitCall /\ [][NextCall]_vars

----------------------------------------------------------------------------
(* Exec::run, exec.rs lines 19-48: the command is run in the directory of    *)
(* each package of the workspace, in the order dag returns.                  *)

\* lines 20-26: dag over every package of the metadata, private ones included
ExecOrder == dag(MetaPackages)

\* lines 36-39: what Command::status gives: the exit status of the command,
\* or an I/O error when the command could not be started
ExecStatuses == {"zero", "nonzero", "nospawn"}

\* The run returns at any non-zero exit.
BailsWithNoBail(nb, status) == status = "nonzero"

\* line 41: `!self.no_bail && !status.success()`
Bails(nb, status) == ~nb /\ status = "nonzero"

InitExec ==
    /\ deps \in {d \in [Pkgs -> SUBSET Pkgs] :
                   /\ \A p \in Pkgs : p \notin d[p]
                   /\ Cardinality({e \in Pkgs \X Pkgs : e[2] \in d[e[1]]}) <= MaxDeps}
    /\ publish = [p \in Pkgs |-> "none"]
    /\ from_git = FALSE
    /\ versioned = "none"
    /\ new_versions = {}
    /\ git = GitOptDefault
    /\ PublishIdle
    /\ GitIdle
    /\ GroupIdle
    /\ ValidateIdle
    /\ TagMsgIdle
    /\ RegistryIdle
    /\ CallIdle
    /\ no_bail \in BOOLEAN
    /\ epc = "idle"
    /\ ei = 1
    /\ elog = <<>>
    /\ eresult = "none"

\* the frame of a step of Exec::run
ExecFrame ==
    UNCHANGED <<inputVars, runVars, branch, pushCmds, gitVars, grpVars, valVars, tmplVars,
                regVars, callVars, no_bail>>

\* lines 20-26: the run starts; dag orders the packages
EStart ==
    /\ epc = "idle"
    /\ IF ExecOrder.ok
       THEN /\ epc' = "loop"
            /\ UNCHANGED eresult
       ELSE /\ epc' = "done"
            /\ eresult' = "DependencyCycle"
    /\ UNCHANGED <<ei, elog>>
    /\ ExecFrame

\* lines 28-44: the command is run in the next package
ERun ==
    /\ epc = "loop"
    /\ ei <= Len(ExecOrder.visited)
    /\ \E status \in ExecStatuses :
         /\ elog' = Append(elog, [pkg |-> ExecOrder.visited[ei], status |-> status])
         /\ IF status = "nospawn"
            THEN epc' = "done" /\ eresult' = "Io" /\ UNCHANGED ei
            ELSE IF Bails(no_bail, status)
            THEN epc' = "done" /\ eresult' = "Bail" /\ UNCHANGED ei
            ELSE ei' = ei + 1 /\ UNCHANGED <<epc, eresult>>
    /\ ExecFrame

\* lines 46-47: the loop is over
EEnd ==
    /\ epc = "loop"
    /\ ei > Len(ExecOrder.visited)
    /\ epc' = "done"
    /\ eresult' = "Ok"
    /\ UNCHANGED <<ei, elog>>
    /\ ExecFrame

NextExec ==
    \/ EStart
    \/ ERun
    \/ EEnd

SpecExec == InitExec /\ [][NextExec]_vars

----------------------------------------------------------------------------
(* Properties of the publish pipeline *)

Events(kind) == {i \in 1..Len(log) : log[i][1] = kind}
At(kind, p) == {i \in 1..Len(log) : log[i] = <<kind, p>>}

\* the publish step of a package: its upload or its already-published skip
StepOf(q) == At("skip", q) \cup At("uploaded", q)

IsPrefix(s, t) == Len(s) <= Len(t) /\ \A i \in 1..Len(s) : s[i] = t[i]

PublishErrors == {"CratesRegistry", "Publish", "PublishTimeout"}

\* C1 as stated: for every dependency edge between two packages of the plan
\* (P depends on Q), Q's publish step (upload or skip) comes before the
\* invocation of P's publish command.
C1_EveryEdgeOrdered ==
    \A P \in Range(PlanPkgs) : \A Q \in deps[P] \cap Range(PlanPkgs) :
        \A i \in At("publish", P) : \E j \in StepOf(Q) : j < i

\* C1 amended: the same for every dependency edge whose target Q is not private
\* (a private package has no publish step at all).
C1_DependencyOrder ==
    \A P \in Range(PlanPkgs) : \A Q \in deps[P] \cap Range(PlanPkgs) :
        publish[Q] # "empty" =>
            \A i \in At("publish", P) : \E j \in StepOf(Q) : j < i

\* C1 witness: `a` depends on `b`, which metadata lists after it, and `a` is
\* published after `b` was uploaded.
C1_Witness ==
    /\ "b" \in deps["a"]
    /\ At("uploaded", "b") # {}
    /\ At("publish", "a") # {}

\* C2: between a successful upload and the next invocation of the publish
\* command the index has been seen to hold the uploaded version; a poll that
\* gives up ends the run with PublishTimeout and is the last thing the run does.
C2_WaitForIndex ==
    /\ \A i \in Events("uploaded") : \A j \in Events("publish") :
          j > i => \E k \in At("seen", log[i][2]) : i < k /\ k < j
    /\ \A k \in Events("seen") : log[k][2] \in indexed
    /\ Events("timeout") # {} =>
          /\ result = "PublishTimeout"
          /\ pc = "done"
          /\ log[Len(log)][1] = "timeout"
          /\ At("uploaded", log[Len(log)][2]) # {}
          /\ At("seen", log[Len(log)][2]) = {}
    /\ result = "PublishTimeout" => Events("timeout") # {}

\* C2 witness: two packages were uploaded in one run, the index having been
\* seen to hold the first in between.
C2_Witness ==
    /\ Cardinality(Events("uploaded")) >= 2
    /\ Events("seen") # {}

\* C3: a run invokes the publish command only for a package the index reported
\* as not published when the run queried it, never for one it reported as
\* published; a later run reaches the packages in the order the first run did,
\* and when it completes every publishable package was skipped or uploaded.
C3_RerunSkipsPublished ==
    /\ \A i \in Events("publish") : i > 1 /\ log[i - 1] = <<"unlisted", log[i][2]>>
    /\ \A i \in Events("listed") :
          /\ At("publish", log[i][2]) = {}
          /\ i < Len(log)
          /\ log[i + 1] = <<"skip", log[i][2]>>
    /\ run >= 2 => IsPrefix(Reached(log), firstOrder) \/ IsPrefix(firstOrder, Reached(log))
    /\ (run >= 2 /\ result = "Ok") =>
          \A p \in Range(PlanPkgs) : publish[p] # "empty" => StepOf(p) # {}

\* C3 witness: the scenario a <- b <- c. The first run stopped at b; the second
\* run skips a, then publishes b, then c.
C3_Witness ==
    /\ deps = [p \in Pkgs |-> IF p = "b" THEN {"a"} ELSE IF p = "c" THEN {"b"} ELSE {}]
    /\ run = 2
    /\ firstOrder = <<"a", "b">>
    /\ "a" \in uploaded
    /\ log = <<<<"listed", "a">>, <<"skip", "a">>,
               <<"unlisted", "b">>, <<"publish", "b">>, <<"uploaded", "b">>, <<"seen", "b">>,
               <<"unlisted", "c">>, <<"publish", "c">>, <<"uploaded", "c">>>>

\* C4: when the step of the package at position N fails, the run has returned
\* that error: the failure is the last thing it did, no publish command was
\* invoked for a package after N, no git step ran, and what was uploaded is
\* still held by the registry.
C4_FailFast ==
    result \in PublishErrors =>
        /\ pc = "done"
        /\ idx <= Len(visited)
        /\ log # <<>>
        /\ log[Len(log)] =
              <<(CASE result = "CratesRegistry" -> "query_failed"
                   [] result = "Publish" -> "failed"
                   [] result = "PublishTimeout" -> "timeout"), visited[idx]>>
        /\ \A j \in (idx + 1)..Len(visited) :
              At("publish", visited[j]) = {} /\ At("unlisted", visited[j]) = {}
        /\ Events("validate") \cup Events("push") = {}
        /\ pushCmds = <<>>
        /\ \A i \in Events("uploaded") : log[i][2] \in uploaded

\* C4 witness: the second package of the order failed after the first one was
\* uploaded.
C4_Witness ==
    /\ result = "Publish"
    /\ idx = 2
    /\ Len(visited) = 3
    /\ At("uploaded", visited[1]) # {}

\* C5 as stated: no run invokes the publish command for a version whose upload
\* has succeeded.
C5_NoDoublePublish == republished = {}

\* C6: the publish command is never invoked for a private package; the publish
\* sequence holds exactly the packages of the plan with no publish list or a
\* non-empty one, in the relative order dag gave them; a run that completes
\* has handled each of them.
C6_PrivateFiltered ==
    /\ \A i \in Events("publish") : publish[log[i][2]] # "empty"
    /\ (run >= 1 /\ result \notin {"Versioning", "DependencyCycle"}) =>
          /\ Range(visited) = {p \in Range(PlanPkgs) : publish[p] \in {"none", "named"}}
          /\ Len(visited) = Cardinality(Range(visited))
          /\ Range(unfiltered) = Range(PlanPkgs)
          /\ \A i, j \in 1..Len(visited) :
                i < j => IndexOf(unfiltered, visited[i]) < IndexOf(unfiltered, visited[j])
    /\ (run >= 1 /\ result = "Ok") =>
          \A p \in Range(PlanPkgs) : publish[p] \in {"none", "named"} => StepOf(p) # {}

\* C6 witness: a plan with a private package and one with a registry list; the
\* run completed, the private package dropped and the other uploaded.
C6_Witness ==
    /\ result = "Ok"
    /\ \E p \in Range(PlanPkgs) : publish[p] = "empty" /\ p \in Range(unfiltered)
    /\ Len(visited) = 2
    /\ \A p \in Range(visited) : At("uploaded", p) # {}

\* C7: validate and push run only with git state from the versioning step, not
\* in from-git mode, after every package was skipped or published and seen in
\* the index, and never after a failed publish step; a push directly follows a
\* successful validate, and a run invokes at most one push command.
C7_GitAfterPublish ==
    /\ \A i \in Events("validate") \cup Events("push") :
          /\ HasGitData
          /\ ~from_git
          /\ \A p \in Range(PlanPkgs) :
                publish[p] # "empty" => \E j \in At("skip", p) \cup At("seen", p) : j < i
          /\ Events("failed") \cup Events("timeout") \cup Events("query_failed") = {}
    /\ \A i \in Events("push") : i > 1 /\ log[i - 1] = <<"validate", "Ok">>
    /\ pc \in {"validate", "push"} => HasGitData /\ idx > Len(visited)
    /\ Len(pushCmds) <= 1
    /\ pushCmds # <<>> => \E i \in Events("push") : log[i][2] \in {"Ok", "NotPushed"}

\* C7 witness: packages were uploaded, validate succeeded and the push command
\* ran.
C7_Witness ==
    /\ Events("uploaded") # {}
    /\ \E i \in Events("push") : log[i] = <<"push", "Ok">>
    /\ pushCmds # <<>>

----------------------------------------------------------------------------
(* Properties of the git release state machine *)

TagCalls == 1..Len(tagLog)

\* C8: once a call of GitOpt::tag for a name has succeeded, every later call for
\* that name finds the tag, runs no `git tag -a` and returns Ok; a name is
\* created at most once, and a successful call leaves the tag in the repository.
C8_TagIdempotent ==
    /\ \A i, j \in TagCalls :
          (i < j /\ tagLog[i].tag = tagLog[j].tag /\ tagLog[i].ok) =>
              /\ tagLog[j].existed
              /\ ~tagLog[j].ran
              /\ tagLog[j].ok
    /\ \A i, j \in TagCalls :
          (tagLog[i].tag = tagLog[j].tag /\ tagLog[i].ran /\ tagLog[i].ok
             /\ tagLog[j].ran /\ tagLog[j].ok) => i = j
    /\ \A i \in TagCalls : tagLog[i].ok => tagLog[i].tag \in localTags
    /\ \A i \in 1..Len(glog) : glog[i].cmd = "tag -a" => glog[i].tag \in gcreated \/ ~glog[i].ok

\* C8 witness: the global tag was created by one call and found by a later one.
C8_Witness ==
    \E i, j \in TagCalls :
        /\ i < j
        /\ tagLog[i] = [tag |-> GlobalTagName, existed |-> FALSE, ran |-> TRUE, ok |-> TRUE]
        /\ tagLog[j] = [tag |-> GlobalTagName, existed |-> TRUE, ran |-> FALSE, ok |-> TRUE]

\* the tags named on a push command line: what follows the `tag` argument
PushedTags(c) ==
    LET k == IndexOf(c, Arg("tag")) IN IF k = 0 THEN <<>> ELSE SubSeq(c, k + 1, Len(c))

\* the branch named on a push command line
PushedBranch(c) == IF Len(c) >= 4 /\ c[4] # Arg("tag") THEN c[4] ELSE <<>>

\* what C9 says of push whatever the tags are: one invocation, to the
\* configured remote, with the validated branch if there is one, none when
\* there is nothing to push, NotPushed exactly on a non-zero exit
PushShape ==
    /\ Len(pushCmds) <= 1
    /\ \A i \in 1..Len(pushCmds) :
          /\ Len(pushCmds[i]) > 3
          /\ SubSeq(pushCmds[i], 1, 3) = <<<<"push">>, <<"--no-follow-tags">>, <<"origin">>>>
          /\ PushedBranch(pushCmds[i]) = (IF branch = None THEN <<>> ELSE <<branch>>)
          /\ ~git.no_git /\ ~git.no_git_push
    /\ (gpc = "done" /\ gresult = "Ok" /\ ~git.no_git /\ ~git.no_git_push
          /\ (branch # None \/ gtags # <<>>)) => Len(pushCmds) = 1
    /\ gresult = "NotPushed" <=>
          (glog # <<>> /\ glog[Len(glog)] = [cmd |-> "push", tag |-> <<>>, ok |-> FALSE])
    /\ Cardinality({i \in 1..Len(glog) : glog[i].cmd = "push"}) = Len(pushCmds)

\* the names of the tag steps of the plan that the options do not skip
TagStepNames ==
    (IF git.no_git \/ git.no_git_tag \/ git.no_global_tag THEN {} ELSE {GlobalTagName})
    \cup {IndividualTagName(p) : p \in {q \in new_versions :
             ~(git.no_git \/ git.no_git_tag \/ git.no_individual_tags
               \/ (publish[q] = "empty" /\ ~git.tag_private))}}

\* C9 as stated: push sends the validated branch and exactly the tags that were
\* newly created in this run.
C9_PushesCreatedTags ==
    /\ PushShape
    /\ \A i \in 1..Len(pushCmds) : Range(PushedTags(pushCmds[i])) = gcreated

\* C9 amended: push sends the validated branch and exactly the tags the tag
\* steps of this run returned, which are the tags this run created and the
\* tags of the same names it found in the repository.
C9_PushesReturnedTags ==
    /\ PushShape
    /\ \A i \in 1..Len(pushCmds) :
          /\ PushedTags(pushCmds[i]) = gtags
          /\ Range(gtags) = TagStepNames
          /\ Len(gtags) = Cardinality(TagStepNames)
          /\ gcreated \subseteq Range(gtags)
          /\ Range(gtags) \subseteq localTags

\* C9 witness: a second release pushes the branch and tags that the first
\* release created.
C9_Witness ==
    /\ grun = 2
    /\ gresult = "Ok"
    /\ branch = "main"
    /\ gcreated = {}
    /\ Len(pushCmds) = 1
    /\ PushedTags(pushCmds[1]) # <<>>


----------------------------------------------------------------------------
(* Properties of the grouping classifier *)

MatchesExclusion(p) == \E k \in 1..Len(exclude) : Matches(exclude[k], p)

RecordedIn(g) == {named_groups[g][k][1] : k \in 1..Len(named_groups[g])}

\* C10: every workspace package whose path matches an exclusion pattern is
\* assigned to Excluded and to no other group as soon as the loop has processed
\* it, whatever custom groups' patterns it also matches and whether or not it
\* inherits the workspace version; PackageExistsInMultipleGroups is never raised
\* for it; and a successful result lists it under no group but Excluded (under
\* Excluded itself unless the final filter drops it as private).
C10_ExclusionPriority ==
    cpc # "idle" =>
      \A i \in 1..Len(WorkspaceMembers) :
        LET p == WorkspaceMembers[i]
        IN (p \in found /\ MatchesExclusion(p)) =>
             /\ i < wi =>
                  /\ p \in RecordedIn(Excluded)
                  /\ \A g \in DOMAIN named_groups \ {Excluded} : p \notin RecordedIn(g)
             /\ ~(cresult.kind = "PackageExistsInMultipleGroups" /\ cresult.name = p)
             /\ cresult.kind = "Ok" =>
                  /\ \A g \in DOMAIN cresult.named_groups \ {Excluded} :
                       p \notin Range(cresult.named_groups[g])
                  /\ (all \/ ~IsPrivate(p)) => p \in Range(cresult.named_groups[Excluded])

\* a package matched by the patterns of two custom groups and by an exclusion
\* pattern has been processed and sits in Excluded
C10_Witness ==
    /\ cpc = "loop"
    /\ wi > IndexOf(WorkspaceMembers, "a")
    /\ Len(MatchedGroups("a")) >= 2
    /\ MatchesExclusion("a")
    /\ "a" \in found
    /\ "a" \in RecordedIn(Excluded)


\* the custom groups with some pattern that matches the package, in declaration
\* order
GroupsMatching(p) ==
    LET hit == SelectSeq(groups, LAMBDA g : \E k \in 1..Len(g.members) : Matches(g.members[k], p))
    IN [i \in 1..Len(hit) |-> Custom(hit[i].name)]

\* the workspace members the metadata has a package for, by position
FoundAt(i) == WorkspaceMembers[i] \in found

\* C11 as stated: the call fails with PackageExistsInMultipleGroups (inherits =
\* true) for every workspace package that inherits the workspace version and
\* matches a pattern of at least one custom group.
C11_EveryInheritingMatchFails ==
    cpc = "done" =>
      \A i \in 1..Len(WorkspaceMembers) :
        LET p == WorkspaceMembers[i]
        IN (FoundAt(i) /\ p \in inherits /\ GroupsMatching(p) # <<>>) =>
             /\ cresult.kind = "PackageExistsInMultipleGroups"
             /\ cresult.inherits
             /\ cresult.name = p

\* C11, amended: a package that inherits the workspace version, matches a
\* pattern of at least one custom group and matches no exclusion pattern is
\* never assigned to a group; the call fails with PackageExistsInMultipleGroups,
\* and when the loop reaches the package the error names it with inherits = true
\* and the groups that match it, also when that is one group.
C11_InheritanceConflict ==
    cpc # "idle" =>
      \A i \in 1..Len(WorkspaceMembers) :
        LET p == WorkspaceMembers[i]
        IN (FoundAt(i) /\ p \in inherits /\ GroupsMatching(p) # <<>> /\ ~MatchesExclusion(p)) =>
             /\ wi <= i
             /\ \A g \in DOMAIN named_groups : p \notin RecordedIn(g)
             /\ cpc = "done" => cresult.kind = "PackageExistsInMultipleGroups"
             /\ (cpc = "done" /\ wi = i) =>
                  cresult = [kind |-> "PackageExistsInMultipleGroups", name |-> p,
                             inherits |-> TRUE, groups |-> GroupsMatching(p)]

\* the call failed for an inheriting package that exactly one custom group matches
C11_Witness ==
    /\ cpc = "done"
    /\ cresult.kind = "PackageExistsInMultipleGroups"
    /\ cresult.inherits
    /\ Len(cresult.groups) = 1
    /\ cresult.name \in inherits


\* C12: a package that matches no exclusion pattern and does not inherit the
\* workspace version is assigned to Default when no custom group matches it and
\* to that group when exactly one does, and to no other group; when more than one
\* custom group matches it the loop does not pass it: the call fails with
\* PackageExistsInMultipleGroups, inherits = false, listing all matching groups.
C12_ClassificationByMatchCount ==
    cpc # "idle" =>
      \A i \in 1..Len(WorkspaceMembers) :
        LET p == WorkspaceMembers[i]
            gm == GroupsMatching(p)
            target == IF gm = <<>> THEN Default ELSE gm[1]
        IN (FoundAt(i) /\ ~MatchesExclusion(p) /\ p \notin inherits) =>
             /\ Len(gm) > 1 => wi <= i
             /\ i < wi =>
                  /\ p \in RecordedIn(target)
                  /\ \A g \in DOMAIN named_groups \ {target} : p \notin RecordedIn(g)
             /\ (cpc = "done" /\ wi = i) =>
                  /\ Len(gm) > 1
                  /\ cresult = [kind |-> "PackageExistsInMultipleGroups", name |-> p,
                                inherits |-> FALSE, groups |-> gm]
             /\ (cresult.kind = "Ok" /\ (all \/ ~IsPrivate(p))) =>
                  /\ p \in Range(cresult.named_groups[target])
                  /\ \A g \in DOMAIN cresult.named_groups \ {target} :
                       p \notin Range(cresult.named_groups[g])

\* a package went to Default and the call then failed for a package that two
\* groups match
C12_Witness ==
    /\ cpc = "done"
    /\ cresult.kind = "PackageExistsInMultipleGroups"
    /\ ~cresult.inherits
    /\ Len(cresult.groups) = 2
    /\ "c" \in RecordedIn(Default)


\* the workspace packages a pattern matches
PackagesMatching(pat) == {p \in Range(WorkspaceMembers) \cap found : Matches(pat, p)}

\* for each custom group, its declared patterns that match no workspace package
DeadCustomPatterns ==
    LET dead(g) == {pat \in Range(g.members) : PackagesMatching(pat) = {}}
        bad == {i \in 1..Len(groups) : dead(groups[i]) # {}}
    IN [n \in {groups[i].name : i \in bad} |->
          dead(groups[CHOOSE i \in bad : groups[i].name = n])]

\* the declared exclusion patterns that match no workspace package
DeadExcludePatterns == {pat \in Range(exclude) : PackagesMatching(pat) = {}}

\* C13 as stated: once classification has gone through every member of a
\* non-empty workspace, the call fails with UnmatchedCustomGroupPattern or
\* UnmatchedExcludeGroupPattern exactly when some declared pattern matches zero
\* workspace packages, and the error lists exactly the declared patterns that
\* match no package.
C13_UnmatchedAreThePatternsWithoutPackage ==
    /\ cresult.kind = "Ok" =>
         (DOMAIN DeadCustomPatterns = {} /\ DeadExcludePatterns = {})
    /\ cresult.kind = "UnmatchedCustomGroupPattern" =>
         cresult.patterns = DeadCustomPatterns
    /\ cresult.kind = "UnmatchedExcludeGroupPattern" =>
         (DOMAIN DeadCustomPatterns = {} /\ cresult.patterns = DeadExcludePatterns)


Places(out, p) == {gk \in UNION {{g} \X DOMAIN out[g] : g \in DOMAIN out} : out[gk[1]][gk[2]] = p}

\* C15: in a successful result Default, Excluded and every declared custom group
\* are present, also when empty; every workspace member found in the metadata
\* is listed once, under one group, unless it is private and `all` is unset, in
\* which case it is listed nowhere; and nothing else is listed.
C15_ExactlyOneGroup ==
    cresult.kind = "Ok" =>
      LET out == cresult.named_groups
      IN /\ DOMAIN out = {Default, Excluded}
                         \cup {Custom(groups[i].name) : i \in 1..Len(groups)}
         /\ \A g \in DOMAIN out : Range(out[g]) \subseteq Range(WorkspaceMembers) \cap found
         /\ \A p \in Range(WorkspaceMembers) \cap found :
              Cardinality(Places(out, p)) = (IF all \/ ~IsPrivate(p) THEN 1 ELSE 0)

\* a successful result with an empty Excluded group that keeps a private package
C15_Witness ==
    /\ cresult.kind = "Ok"
    /\ cresult.named_groups[Excluded] = <<>>
    /\ all
    /\ \E p \in found : IsPrivate(p) /\ Places(cresult.named_groups, p) # {}


----------------------------------------------------------------------------
(* Properties of validate *)

\* the repository is a git repository with commits, git is not skipped
RepositoryOk == ~git.no_git /\ ~env.notGit /\ env.revCount # "0"

\* a push is required (lines 141-146 do not return)
PushRequired ==
    ~(git.no_git_push
      \/ (git.no_git_commit
          /\ (git.no_git_tag \/ (git.no_global_tag /\ git.no_individual_tags))))

\* command line value, else workspace config value, else `master`
AllowPattern ==
    IF git.allow_branch # None THEN git.allow_branch
    ELSE IF cfg_allow # None THEN cfg_allow
    ELSE "master"

\* the current branch matches the allow glob
BranchMatchesGlob == is_match(Chars(AllowPattern), Chars(env.head))

\* validate has been called in a state where it reaches the branch test
ReachedBranchTest ==
    /\ vpc = "done"
    /\ RepositoryOk
    /\ PushRequired
    /\ env.remoteRefs # {}
    /\ env.head # "HEAD"

\* C16: when a push is required and the remote has refs, validate does not
\* reject branch `main` if the effective allow pattern is exactly `master`, does
\* not reject a branch that matches the allow glob, and fails with
\* BranchNotAllowed for every other branch.
C16_BranchAllowRule ==
    ReachedBranchTest =>
      /\ (env.head = "main" /\ AllowPattern = "master") => vresult.err # "BranchNotAllowed"
      /\ BranchMatchesGlob => vresult.err # "BranchNotAllowed"
      /\ (~BranchMatchesGlob /\ ~(env.head = "main" /\ AllowPattern = "master")) =>
           vresult = Err("BranchNotAllowed")

\* branch `main` was accepted under the default allow pattern, which no option
\* and no workspace configuration sets
C16_Witness ==
    /\ ReachedBranchTest
    /\ env.head = "main"
    /\ git.allow_branch = None
    /\ cfg_allow = None
    /\ vresult = Ok("main")

\* validate has been called in a state where it reaches the comparison with the
\* upstream branch
ReachedUpstreamTest ==
    /\ ReachedBranchTest
    /\ BranchMatchesGlob \/ (env.head = "main" /\ AllowPattern = "master")

\* C17 as stated, where the remote has a ref for the branch: validate fails with
\* BehindRemote if the local branch has commits that are not on the upstream
\* branch, and returns the branch name otherwise.
C17_BehindWhenLocalHasNewCommits ==
    (ReachedUpstreamTest /\ env.head \in env.remoteRefs) =>
      IF env.right # "0" THEN vresult = Err("BehindRemote") ELSE vresult = Ok(env.head)

\* C17, amended: all earlier checks having passed, validate fails with
\* BehindRemote if the upstream branch has commits that the local branch does
\* not have, or if the remote has no ref for the branch so that the count cannot
\* be read, and returns the branch name otherwise.
C17_BehindRemote ==
    ReachedUpstreamTest =>
      IF env.head \notin env.remoteRefs \/ env.left # "0"
      THEN vresult = Err("BehindRemote")
      ELSE vresult = Ok(env.head)

\* validate failed with BehindRemote for a branch whose upstream has a commit it
\* lacks, the branch having no commit of its own
C17_Witness ==
    /\ ReachedUpstreamTest
    /\ env.head \in env.remoteRefs
    /\ env.left = "1"
    /\ env.right = "0"
    /\ vresult = Err("BehindRemote")

\* C18 as stated, in a repository whose remote has refs: validate fails with
\* NotBranch whenever HEAD is detached and a commit is required, whatever the
\* tag and push options are.
C18_DetachedHeadIsNotBranch ==
    (/\ vpc = "done"
     /\ RepositoryOk
     /\ env.remoteRefs # {}
     /\ env.head = "HEAD"
     /\ ~git.no_git_commit) => vresult = Err("NotBranch")

\* C19 as stated, for a branch the allow pattern accepts: when a push is
\* required, validate fails with NoRemote if the remote has no ref for the
\* current branch, also when it has refs for other branches.
C19_NoTrackingRefIsNoRemote ==
    (ReachedUpstreamTest \/ (vpc = "done" /\ RepositoryOk /\ PushRequired
                              /\ env.remoteRefs = {} /\ env.head # "HEAD")) =>
      (env.head \notin env.remoteRefs => vresult = Err("NoRemote"))

----------------------------------------------------------------------------
(* Properties of validate within a release                                  *)

\* the errors validate returns, lines 134, 138, 158, 169, 191 and 212
ValidateErrors ==
    {"NotGit", "NoCommits", "NoRemote", "NotBranch", "BranchNotAllowed", "BehindRemote"}

\* validate of the running release returned Ok(None)
ReturnedNoBranch ==
    /\ branch = None
    /\ \/ gpc \in {"commit", "global_tag", "individual_tag", "push"}
       \/ gpc = "done" /\ gresult \notin ValidateErrors

\* lines 141-146 with lines 227 and 280, 326-333: neither the commit nor a tag
\* is made
NothingToRecord ==
    \/ git.no_git
    \/ git.no_git_commit /\ (git.no_git_tag \/ (git.no_global_tag /\ git.no_individual_tags))

\* C20 as stated: once validate returned no branch, the steps that follow run
\* no git command that changes the repository (add, commit, tag -a, push).
C20_NoBranchNoMutation == ReturnedNoBranch => glog = <<>>

\* C20, amended: validate returns no branch only when no branch is to be
\* pushed. Once it returned no branch, one of no_git, no_git_push and
\* no_git_commit is set, no push of the release names a branch, and when
\* no_git is set or the commit and every tag are skipped the steps that follow
\* run no git command that changes the repository.
C20_NoBranchNoBranchPush ==
    ReturnedNoBranch =>
        /\ git.no_git \/ git.no_git_push \/ git.no_git_commit
        /\ \A i \in 1..Len(pushCmds) : PushedBranch(pushCmds[i]) = <<>>
        /\ NothingToRecord => glog = <<>> /\ pushCmds = <<>>

\* a release ended whose validate returned no branch, on a detached HEAD with
\* the commit skipped, and whose push sent the tags it made
C20_Witness ==
    /\ ReturnedNoBranch
    /\ gpc = "done"
    /\ gresult = "Ok"
    /\ git.no_git_commit
    /\ ~git.no_git_push
    /\ pushCmds # <<>>
    /\ PushedTags(pushCmds[1]) # <<>>

----------------------------------------------------------------------------
(* Properties of the errors of a run of the publish pipeline *)

\* C21 as stated: a run that ends with a repository-state error (NotGit,
\* NoCommits, NotBranch, BranchNotAllowed, NoRemote, BehindRemote) has uploaded
\* no package and pushed nothing before the error.
C21_RepositoryErrorsBeforeMutation ==
    result \in ValidateErrors =>
        /\ Events("uploaded") = {}
        /\ pushCmds = <<>>

----------------------------------------------------------------------------
(* Properties of the exit statuses of git *)

\* C22 as stated, for the `remote update` of validate: when the command exits
\* with a non-zero status validate fails with an error.
C22_NonZeroExitFails ==
    (ReachedUpstreamTest /\ ~env.updateOk) => vresult.err # None

----------------------------------------------------------------------------
(* Properties of the ordering step within a run *)

\* the packages reached from S along at most n dependency edges of the plan
RECURSIVE ReachIn(_, _)
ReachIn(S, n) ==
    IF n = 0 THEN S
    ELSE ReachIn(S \cup UNION {deps[q] \cap Range(PlanPkgs) : q \in S}, n - 1)

\* the packages handed to dag have a dependency cycle
PlanCyclic ==
    \E p \in Range(PlanPkgs) :
        p \in ReachIn(deps[p] \cap Range(PlanPkgs), Cardinality(Pkgs))

----------------------------------------------------------------------------
(* Termination of a run of the publish pipeline *)

\* the poll after an upload makes fewer than MaxPolls attempts that do not find
\* the version; a run that gave up has failed with PublishTimeout for a package
\* it uploaded
PollBounded ==
    /\ polls < MaxPolls
    /\ result = "PublishTimeout" =>
          /\ pc = "done"
          /\ Current \in uploaded
          /\ polls = MaxPolls - 1

\* C24: every run of Publish::run that has started ends, whatever the registry
\* index shows and whenever it shows it: the poll after an upload makes a
\* bounded number of attempts and then fails with PublishTimeout.
C24_RunTerminates ==
    /\ []PollBounded
    /\ (pc \notin {"idle", "done"}) ~> (pc = "done")

\* a run gave up on a version the registry accepted and whose index never
\* showed any version
C24_Witness ==
    /\ result = "PublishTimeout"
    /\ pc = "done"
    /\ indexed = {}
    /\ uploaded # {}

----------------------------------------------------------------------------
(* Properties of the publish command's output *)

\* the last invocation of the publish command in the log of the run
LastPublish == CHOOSE i \in Events("publish") : \A j \in Events("publish") : j <= i

\* C25: the last invocation of the publish command of a run counted as
\* successful (the upload is recorded, the run goes on to poll the index) if and
\* only if its stderr held `Uploading` and did not hold `error:`; otherwise the
\* run has returned Error::Publish for that package and the failure is the last
\* thing it did, no poll of the index included.
C25_UploadMarkerDecides ==
    /\ cargoOut.ran <=> Events("publish") # {}
    /\ cargoOut.ran =>
          LET i == LastPublish
              p == log[i][2]
          IN /\ i < Len(log)
             /\ IF cargoOut.uploading /\ ~cargoOut.error
                THEN /\ log[i + 1] = <<"uploaded", p>>
                     /\ p \in uploaded
                     /\ result # "Publish"
                     /\ pc = "poll" \/ At("seen", p) \cup At("timeout", p) # {}
                ELSE /\ log[i + 1] = <<"failed", p>>
                     /\ i + 1 = Len(log)
                     /\ result = "Publish"
                     /\ pc = "done"
                     /\ p = visited[idx]
                     /\ At("seen", p) \cup At("timeout", p) = {}
    /\ result = "Publish" => cargoOut.ran /\ ~(cargoOut.uploading /\ ~cargoOut.error)

\* a publish command whose stderr held both `Uploading` and `error:` made the
\* run fail after an earlier package was uploaded and seen in the index
C25_Witness ==
    /\ cargoOut = [ran |-> TRUE, uploading |-> TRUE, error |-> TRUE]
    /\ result = "Publish"
    /\ Events("seen") # {}

----------------------------------------------------------------------------
(* Properties of the tag message *)

\* the body of a scope for one package: `%n` and `%v` read from left to right
\* and replaced by the package's name and version
RECURSIVE ScopeText(_, _)
ScopeText(t, pkg) ==
    IF t = <<>> THEN <<>>
    ELSE IF StartsWith(t, <<"%", "n">>) THEN pkg.name \o ScopeText(SubSeq(t, 3, Len(t)), pkg)
    ELSE IF StartsWith(t, <<"%", "v">>) THEN pkg.version \o ScopeText(SubSeq(t, 3, Len(t)), pkg)
    ELSE <<Head(t)>> \o ScopeText(Tail(t), pkg)

\* the body of a scope repeated for the packages of the plan, in name order,
\* private packages left out unless tag_private is set
RECURSIVE ScopeRepeated(_, _)
ScopeRepeated(t, plan) ==
    IF plan = <<>> THEN <<>>
    ELSE (IF ~Head(plan).private \/ git.tag_private THEN ScopeText(t, Head(plan)) ELSE <<>>)
         \o ScopeRepeated(t, Tail(plan))

\* a message whose scopes are all closed, read from left to right: each scope
\* replaced by its repeated body, each `%v` outside a scope by the unified
\* version, every other character kept
RECURSIVE Templated(_)
Templated(msg) ==
    IF msg = <<>> THEN <<>>
    ELSE IF StartsWith(msg, <<"%", "{">>)
         THEN LET parts == SplitOnce(SubSeq(msg, 3, Len(msg)), "}")
              IN ScopeRepeated(parts.before, tplan) \o Templated(parts.after)
    ELSE IF StartsWith(msg, <<"%", "v">>)
         THEN <<new_version>> \o Templated(SubSeq(msg, 3, Len(msg)))
    ELSE <<Head(msg)>> \o Templated(Tail(msg))

\* C26 as stated: the message built from a tag message whose scopes are closed
\* is the message with each scope replaced by its body repeated for the
\* packages of the plan and each `%v` outside a scope replaced by the unified
\* version; without a tag message it is the tag name.
C26_TagMessageTemplating ==
    (tpc = "done" /\ tmsgs.ok) =>
        tmsgs.val = (IF tag_msg = <<>> THEN <<GlobalTagName>>
                     ELSE <<Templated(tag_msg[1])>>)

\* the message opens a scope at position i
OpensScope(msg, i) == i < Len(msg) /\ msg[i] = "%" /\ msg[i + 1] = "{"

\* the message opens a scope that no `}` closes before the next scope opens or
\* the message ends
UnterminatedScope(msg) ==
    \E i \in 1..Len(msg) :
        /\ OpensScope(msg, i)
        /\ \A k \in (i + 2)..Len(msg) :
              msg[k] = "}" => \E j \in (i + 2)..(k - 1) : OpensScope(msg, j)

\* the commands of the release that create a tag
TagCreations == {i \in 1..Len(glog) : glog[i].cmd = "tag -a"}

----------------------------------------------------------------------------
(* Properties of the registries of the publish loop *)

\* C28 as stated: for every package the loop reached, the registry whose index
\* it consults is the registry the publish command uploads to.
C28_SameRegistry == \A i \in 1..Len(regs) : regs[i].index = regs[i].upload

----------------------------------------------------------------------------
(* C29: only packages in scope are published.  A package whose path matches  *)
(* an exclusion pattern of the workspace (group Excluded) is never uploaded  *)
(* by Publish::run, with versioning and in from-git mode alike.              *)
C29_ExcludedNeverUploaded ==
    \A p \in Pkgs : ExcludeMatch(p) # 0 => p \notin uploaded

----------------------------------------------------------------------------
\* the positions of the patterns of a custom group that match the package
PatternHits(g, p) == {k \in 1..Len(g.members) : Matches(g.members[k], p)}

\* what the loop has pushed to a group for the package
EntriesOf(g, p) == SelectSeq(named_groups[g], LAMBDA x : x[1] = p)

\* C30: for a package that reaches the test of the custom groups (it is found
\* and no exclusion pattern matches it), each custom group holds at most one
\* entry for it, recorded with the first pattern of the group, in declaration
\* order, that matches it, however many of the group's patterns match; when one
\* group alone matches it and it does not inherit the workspace version, the loop
\* assigns it to that group with exactly one entry and raises no
\* PackageExistsInMultipleGroups for it; and a conflict raised for it lists every
\* custom group that matches it exactly once.
C30_FirstMatchWithinGroup ==
    cpc # "idle" =>
      \A i \in 1..Len(WorkspaceMembers) :
        LET p == WorkspaceMembers[i]
            conflict == cresult.kind = "PackageExistsInMultipleGroups" /\ cresult.name = p
        IN (FoundAt(i) /\ ~MatchesExclusion(p)) =>
             /\ \A j \in 1..Len(groups) :
                  LET hits == PatternHits(groups[j], p)
                      entries == EntriesOf(Custom(groups[j].name), p)
                  IN /\ Len(entries) <= 1
                     /\ entries # <<>> =>
                          /\ hits # {}
                          /\ \E k \in hits :
                               /\ \A h \in hits : k <= h
                               /\ entries[1][2] = groups[j].members[k]
                     /\ (i < wi /\ hits # {} /\ Len(GroupsMatching(p)) = 1 /\ p \notin inherits) =>
                          Len(entries) = 1
             /\ (Len(GroupsMatching(p)) = 1 /\ p \notin inherits) => ~conflict
             /\ conflict =>
                  /\ \A x, y \in 1..Len(cresult.groups) :
                       cresult.groups[x] = cresult.groups[y] => x = y
                  /\ Range(cresult.groups) =
                       {Custom(groups[j].name) : j \in {h \in 1..Len(groups) : PatternHits(groups[h], p) # {}}}

\* the package at crates/internal matches both patterns of a group, has been
\* processed and sits in that group
C30_Witness ==
    /\ cpc # "idle"
    /\ "a" \in found
    /\ wi > IndexOf(WorkspaceMembers, "a")
    /\ \E j \in 1..Len(groups) :
         /\ Cardinality(PatternHits(groups[j], "a")) >= 2
         /\ "a" \in RecordedIn(Custom(groups[j].name))

----------------------------------------------------------------------------
\* a call that returned success without a value: Ok(None) of validate and of
\* the tag steps, Ok(()) of commit and push
ReturnedNothing == callRet = (IF callOp \in {"commit", "push"} THEN Ok("()") ELSE Ok(None))

\* C31: skipped steps leave git untouched.  With no_git, validate returns no
\* branch and commit, global_tag, individual_tag and push return success, and
\* none of them invokes a git command; the same holds of commit under
\* no_git_commit, of both tag steps under no_git_tag, of individual_tag for a
\* private package without tag_private, and of push under no_git_push.
C31_SkippedStepsInvokeNoGit ==
    LET skipped ==
          \/ git.no_git
          \/ callOp = "commit" /\ git.no_git_commit
          \/ callOp \in {"global_tag", "individual_tag"} /\ git.no_git_tag
          \/ callOp = "individual_tag" /\ callArgs.is_private /\ ~git.tag_private
          \/ callOp = "push" /\ git.no_git_push
    IN (callOp # "idle" /\ skipped) => (callCmds = <<>> /\ ReturnedNothing)

\* individual_tag was called for a private package without tag_private, no
\* other option set, and ran nothing
C31_Witness ==
    /\ callOp = "individual_tag"
    /\ callArgs.is_private
    /\ ~callArgs.no_individual_tags
    /\ git = GitOptDefault
    /\ callCmds = <<>>
    /\ callRet = Ok(None)

----------------------------------------------------------------------------
\* the runs of the command that ended with a non-zero exit, by position
NonZeroExits == {i \in 1..Len(elog) : elog[i].status = "nonzero"}

\* the command was started in every package it was run in
AllStarted == \A i \in 1..Len(elog) : elog[i].status # "nospawn"

\* C32: Exec::run runs the command at most once in each package, a package
\* after its dependencies.  Without no_bail the first non-zero exit is the last
\* run of the command and the run ends with Bail, which it returns in no other
\* case.  With no_bail no exit status ends the run: the loop goes on after a
\* non-zero exit, and a run in which the command started in every package ends
\* in success after running it in all of them.
C32_BailAtFirstFailure ==
    /\ \A i, j \in 1..Len(elog) : elog[i].pkg = elog[j].pkg => i = j
    /\ \A i \in 1..Len(elog) :
         \A q \in deps[elog[i].pkg] : \E j \in 1..(i - 1) : elog[j].pkg = q
    /\ ~no_bail =>
         /\ \A i \in NonZeroExits : i = Len(elog) /\ epc = "done" /\ eresult = "Bail"
         /\ eresult = "Bail" => NonZeroExits # {}
    /\ no_bail =>
         /\ eresult # "Bail"
         /\ (NonZeroExits # {} /\ AllStarted) => (epc = "loop" \/ eresult = "Ok")
         /\ (epc = "done" /\ AllStarted /\ eresult # "DependencyCycle") => eresult = "Ok"
    /\ eresult = "Ok" =>
         /\ {elog[i].pkg : i \in 1..Len(elog)} = Pkgs
         /\ no_bail \/ NonZeroExits = {}

\* with no_bail the command failed in the first package, was run in the two
\* others, one of which depends on the other, and the run ended in success
C32_Witness ==
    /\ no_bail
    /\ epc = "done"
    /\ eresult = "Ok"
    /\ Len(elog) = 3
    /\ elog[1].status = "nonzero"
    /\ \E p \in Pkgs : deps[p] # {}

====
